---- MODULE Spec2Model ----
(***************************************************************************)
(* Model of the lib-epub package model engine: the manifest path           *)
(* normalizer and containment guard (reader and builder), the fallback     *)
(* chain validator and fallback-aware fetch, the spine cursor state        *)
(* machine and the version detector.                                       *)
(*                                                                         *)
(* Strings are sequences of one-character strings, so that prefix tests,   *)
(* slicing and the splitting of a path into components are computed the    *)
(* way the code computes them.                                             *)
(***************************************************************************)
EXTENDS Integers, Sequences, FiniteSets, TLC

VARIABLES
    component,           \* the part of the library a behaviour exercises
    \* path normalizer
    package_path,        \* EpubDoc.package_path / EpubBuilder.rootfiles[0]
    href,                \* the raw reference handed to normalize_manifest_path
    reader_result,       \* result of EpubDoc::normalize_manifest_path
    builder_result,      \* result of EpubBuilder::normalize_manifest_path
    \* reader: manifest and fallback chains
    opf_manifest,        \* the items the package document declares
    doc_manifest,        \* EpubDoc.manifest
    warnings,            \* what validate_fallback_chains has logged
    fetch_result,        \* last get_manifest_item_with_fallback call
    \* builder: finalize
    b_rootfiles,         \* EpubBuilder.rootfiles
    b_metadata,          \* EpubBuilder.metadata
    b_catalog,           \* EpubBuilder.catalog
    b_spine,             \* EpubBuilder.spine
    b_manifest,          \* EpubBuilder.manifest
    visit_log,           \* the items validate_manifest_fallback_chains visited
    make_result,         \* what make returned
    output_written,      \* whether make created the output archive
    workspace,           \* the staging directory temp_dir and what it holds
    archive,             \* the entries make wrote to the output archive
    b_alive,             \* the builder value exists (not yet consumed or dropped)
    drop_warned,         \* Drop has logged a failed removal
    b_call,              \* the last builder operation and what it returned
    \* reader: spine cursor
    spine,               \* EpubDoc.spine
    current_spine_index, \* EpubDoc.current_spine_index
    spine_call,          \* the last navigation call and what it returned
    cursor_set_by,       \* the operation that last assigned the cursor
    \* reader: version detection
    opf_element,         \* the package element handed to determine_epub_version
    version_result,      \* what determine_epub_version returned
    \* font obfuscation
    font_method,         \* "idpf" or "adobe"
    font_key,            \* the key string, as bytes
    font_data,           \* the buffer handed to the transform
    font_once,           \* outcome of the first application
    font_twice,          \* outcome of applying the transform to font_once
    \* reader: opening a publication, and the builder made from a document
    publication,         \* the archive handed to EpubDoc::from_reader
    opened,              \* what from_reader returned
    rebuilt              \* what EpubBuilder::from returned

path_vars == <<package_path, href, reader_result, builder_result>>
fallback_vars == <<opf_manifest, doc_manifest, warnings, fetch_result>>
builder_vars == <<b_rootfiles, b_metadata, b_catalog, b_spine, b_manifest, visit_log,
                  make_result, output_written, workspace, archive, b_alive,
                  drop_warned, b_call>>
spine_vars == <<spine, current_spine_index, spine_call, cursor_set_by>>
version_vars == <<opf_element, version_result>>

font_vars == <<font_method, font_key, font_data, font_once, font_twice>>
open_vars == <<publication, opened, rebuilt>>

vars == <<component, path_vars, fallback_vars, builder_vars, spine_vars, version_vars,
          font_vars, open_vars>>

None == [kind |-> "none"]

----------------------------------------------------------------------------
(* Bounds *)

MaxRefLen == 7      \* longest reference string that is enumerated
MaxDepth  == 2      \* deepest package directory below the container root
NumIds    == 3      \* number of manifest ids that are enumerated
MaxSpine  == 4      \* longest spine that is enumerated
MaxKeyLen == 2      \* longest short obfuscation key that is enumerated
MaxRootfiles == 1   \* most rootfiles a builder holds at a time
MaxAdded == 1       \* most metadata or catalog items added one by one
MaxStaged == 2      \* most resources staged in a configured builder

----------------------------------------------------------------------------
(* Strings *)

Last(s) == s[Len(s)]
Front(s) == SubSeq(s, 1, Len(s) - 1)

\* &s[n..]
Drop(s, n) == SubSeq(s, n + 1, Len(s))

\* str::starts_with
StrStartsWith(s, p) == Len(s) >= Len(p) /\ SubSeq(s, 1, Len(p)) = p

Slash == <<"/">>
DotDot == <<".", ".">>
Dot == <<".">>
DotDotSlash == <<".", ".", "/">>
DotSlash == <<".", "/">>

----------------------------------------------------------------------------
(* std::path as the code uses it *)

\* the text between separators ("a//b" has an empty segment)
RECURSIVE Segments(_)
Segments(s) ==
    IF s = <<>> THEN << <<>> >>
    ELSE LET rest == Segments(Tail(s))
         IN  IF Head(s) = "/" THEN << <<>> >> \o rest
             ELSE << <<Head(s)>> \o Head(rest) >> \o Tail(rest)

IsAbsolute(p) == p # <<>> /\ p[1] = "/"

RECURSIVE BodyComponents(_, _, _)
BodyComponents(segs, i, rooted) ==
    IF i > Len(segs) THEN <<>>
    ELSE LET seg == segs[i]
             keep == /\ seg # <<>>
                     /\ (seg = Dot => (i = 1 /\ ~rooted))
         IN  (IF keep THEN <<seg>> ELSE <<>>) \o BodyComponents(segs, i + 1, rooted)

\* Path::components: a leading separator is the root component, repeated
\* separators and "." are dropped, except a leading "." of a relative path
Components(p) ==
    IF IsAbsolute(p)
    THEN <<Slash>> \o BodyComponents(Segments(p), 1, TRUE)
    ELSE BodyComponents(Segments(p), 1, FALSE)

RECURSIVE JoinWith(_, _)
JoinWith(cs, sep) ==
    IF cs = <<>> THEN <<>>
    ELSE IF Len(cs) = 1 THEN cs[1]
    ELSE cs[1] \o sep \o JoinWith(Tail(cs), sep)

\* the text of a path made of the components cs
AsPath(cs) ==
    IF cs # <<>> /\ cs[1] = Slash
    THEN Slash \o JoinWith(Tail(cs), Slash)
    ELSE JoinWith(cs, Slash)

\* PathBuf::join (PathBuf::push on a clone)
PathJoin(p, q) ==
    IF IsAbsolute(q) THEN q
    ELSE IF p = <<>> THEN q
    ELSE IF Last(p) = "/" THEN p \o q
    ELSE p \o Slash \o q

\* Path::parent: nothing for the empty path and for the root
HasParent(p) ==
    LET cs == Components(p) IN cs # <<>> /\ Last(cs) # Slash

Parent(p) == AsPath(Front(Components(p)))

\* Path::strip_prefix compares component by component
CanStripPrefix(p, base) == StrStartsWith(Components(p), Components(base))

StripPrefix(p, base) ==
    AsPath(SubSeq(Components(p), Len(Components(base)) + 1, Len(Components(p))))

\* Path::starts_with compares component by component
PathStartsWith(p, base) == StrStartsWith(Components(p), Components(base))

----------------------------------------------------------------------------
(* The parts of the state a component leaves alone *)

\* the variables of the given parts have the values they have when the part
\* is not exercised
Idle(parts) ==
    /\ IF "path" \in parts
       THEN /\ package_path = <<>> /\ href = <<>>
            /\ reader_result = None /\ builder_result = None
       ELSE TRUE
    /\ IF "fallback" \in parts
       THEN /\ opf_manifest = <<>> /\ doc_manifest = None
            /\ warnings = {} /\ fetch_result = None
       ELSE TRUE
    /\ IF "builder" \in parts
       THEN /\ b_rootfiles = <<>> /\ b_metadata = <<>> /\ b_catalog = <<>>
            /\ b_spine = <<>> /\ b_manifest = <<>> /\ visit_log = <<>>
            /\ make_result = None /\ output_written = FALSE
            /\ workspace = [exists |-> FALSE, files |-> {}, dirs |-> {}]
            /\ archive = None /\ b_alive = FALSE
            /\ drop_warned = FALSE /\ b_call = None
       ELSE TRUE
    /\ IF "spine" \in parts
       THEN /\ spine = <<>> /\ current_spine_index = 0
            /\ spine_call = None /\ cursor_set_by = "open"
       ELSE TRUE
    /\ IF "version" \in parts
       THEN opf_element = None /\ version_result = None
       ELSE TRUE
    /\ IF "font" \in parts
       THEN /\ font_method = "idpf" /\ font_key = <<>> /\ font_data = None
            /\ font_once = None /\ font_twice = None
       ELSE TRUE
    /\ IF "open" \in parts
       THEN publication = None /\ opened = None /\ rebuilt = None
       ELSE TRUE

----------------------------------------------------------------------------
(* Path normalizer / containment guard *)

EpubPath == <<"/", "e">>       \* the canonicalized location of the publication
TempDir  == <<"/", "t">>       \* the builder's staging workspace

Ok(p) == [kind |-> "ok", path |-> p]
Err(e, p) == [kind |-> "err", error |-> e, path |-> p]
NoPath == [some |-> FALSE, path |-> <<>>]
SomePath(p) == [some |-> TRUE, path |-> p]

\* the loop run at most once
FolderDepthOnce(remaining) ==
    IF StrStartsWith(remaining, DotDotSlash) THEN 1 ELSE 0

\* "while remaining.starts_with("../")": the number of leading "../"
RECURSIVE FolderDepth(_)
FolderDepth(remaining) ==
    IF StrStartsWith(remaining, DotDotSlash)
    THEN 1 + FolderDepth(Drop(remaining, 3))
    ELSE 0

\* "for _ in 0..folder_depth { if !current_path.pop() { return None } }"
RECURSIVE PopTimes(_, _)
PopTimes(current_path, n) ==
    IF n = 0 THEN SomePath(current_path)
    ELSE IF ~HasParent(current_path) THEN NoPath
    ELSE PopTimes(Parent(current_path), n - 1)

check_realtive_link_leakage(epub_path, current_dir, check_file) ==
    LET folder_depth == FolderDepth(check_file)
        remaining == Drop(check_file, 3 * folder_depth)
        popped == PopTimes(PathJoin(epub_path, current_dir), folder_depth)
    IN  IF ~popped.some THEN NoPath
        ELSE IF ~CanStripPrefix(popped.path, epub_path) THEN NoPath
        ELSE LET prefix_path == StripPrefix(popped.path, epub_path)
             IN  IF prefix_path = <<>> THEN SomePath(remaining)
                 ELSE SomePath(prefix_path \o Slash \o remaining)

\* EpubDoc.base_path: package_path.parent()
base_path(pkg) == Parent(pkg)

\* EpubDoc::normalize_manifest_path
reader_normalize_manifest_path(pkg, path) ==
    IF StrStartsWith(path, DotDotSlash)
    THEN LET current_dir == Parent(PathJoin(EpubPath, pkg))
             checked == check_realtive_link_leakage(EpubPath, current_dir, path)
         IN  IF checked.some THEN Ok(checked.path)
             ELSE Err("RealtiveLinkLeakage", path)
    ELSE IF StrStartsWith(path, Slash) THEN Ok(Drop(path, 1))
    ELSE Ok(PathJoin(base_path(pkg), path))

remove_leading_slash(p) ==
    IF CanStripPrefix(p, Slash) THEN StripPrefix(p, Slash) ELSE p

\* EpubBuilder::normalize_manifest_path, rootfile being rootfiles[0]
builder_normalize_manifest_path(rootfile, path) ==
    LET basic_path == remove_leading_slash(Parent(rootfile))
    IN  IF PathStartsWith(path, DotDotSlash)
        THEN LET checked == check_realtive_link_leakage(TempDir, basic_path, path)
             IN  IF checked.some THEN Ok(checked.path)
                 ELSE Err("RealtiveLinkLeakage", path)
        ELSE IF CanStripPrefix(path, Slash)
        THEN Ok(PathJoin(TempDir, StripPrefix(path, Slash)))
        ELSE IF PathStartsWith(path, DotSlash)
        THEN Err("IllegalManifestPath", path)
        ELSE Ok(PathJoin(PathJoin(TempDir, basic_path), path))

\* the package document "c" in a directory d levels below the container root
RECURSIVE PackageAt(_)
PackageAt(d) == IF d = 0 THEN <<"c">> ELSE <<"a", "/">> \o PackageAt(d - 1)

PathInit ==
    /\ component = "path"
    /\ package_path \in {PackageAt(d) : d \in 0..MaxDepth}
    /\ href \in UNION {[1..k -> {"a", ".", "/"}] : k \in 0..MaxRefLen}
    /\ reader_result = None
    /\ builder_result = None
    /\ Idle({"fallback", "builder", "spine", "version", "font", "open"})

\* parse_manifest hands the href of an item to the reader's normalizer
ReaderNormalize ==
    /\ component = "path"
    /\ reader_result = None
    /\ reader_result' = reader_normalize_manifest_path(package_path, href)
    /\ UNCHANGED <<package_path, href, builder_result>>
    /\ UNCHANGED <<component, font_vars, open_vars, fallback_vars, builder_vars, spine_vars, version_vars>>

\* add_manifest hands the path of an item to the builder's normalizer
BuilderNormalize ==
    /\ component = "path"
    /\ builder_result = None
    /\ builder_result' = builder_normalize_manifest_path(package_path, href)
    /\ UNCHANGED <<package_path, href, reader_result>>
    /\ UNCHANGED <<component, font_vars, open_vars, fallback_vars, builder_vars, spine_vars, version_vars>>

PathSpec == PathInit /\ [][ReaderNormalize \/ BuilderNormalize]_vars

----------------------------------------------------------------------------
(* Manifest and fallback chains *)

Ids == {<<"a", "b", "nav", "c", "d">>[i] : i \in 1..NumIds}
NoId == "-"                         \* an item without a fallback attribute
Mimes == {"image/psd", "image/png"}
NoProperties == <<>>

\* a manifest maps the ids it declares to their items; a fallback may name
\* an id that the manifest does not declare
Manifests ==
    UNION {[keys -> [fallback : Ids \cup {NoId}, mime : Mimes,
                     properties : {NoProperties}]] : keys \in SUBSET Ids}

\* fallback_chain.join("->")
JoinChain(chain) == JoinWith([i \in 1..Len(chain) |-> <<chain[i]>>], <<"-", ">">>)

Contains(seq, x) == \E i \in 1..Len(seq) : seq[i] = x

Valid == [ok |-> TRUE]
Circular(chain) == [ok |-> FALSE, error |-> "circular", message |-> JoinChain(chain)]
Missing(id) == [ok |-> FALSE, error |-> "missing", id |-> id]

\* the repeated id is not appended to the chain
RECURSIVE validate_chain_unclosed(_, _, _)
validate_chain_unclosed(m, manifest_id, fallback_chain) ==
    IF Contains(fallback_chain, manifest_id)
    THEN Circular(fallback_chain)
    ELSE LET item == m[manifest_id]
         IN  IF item.fallback # NoId
             THEN IF item.fallback \notin DOMAIN m
                  THEN Missing(item.fallback)
                  ELSE validate_chain_unclosed(m, item.fallback,
                                               Append(fallback_chain, manifest_id))
             ELSE Valid

\* the walk stops after the first fallback link
validate_chain_one_link(m, manifest_id, fallback_chain) ==
    LET item == m[manifest_id]
    IN  IF item.fallback # NoId /\ item.fallback \notin DOMAIN m
        THEN Missing(item.fallback)
        ELSE Valid

\* EpubDoc::validate_fallback_chain
RECURSIVE reader_validate_fallback_chain(_, _, _)
reader_validate_fallback_chain(m, manifest_id, fallback_chain) ==
    IF Contains(fallback_chain, manifest_id)
    THEN Circular(Append(fallback_chain, manifest_id))
    ELSE LET item == m[manifest_id]
         IN  IF item.fallback # NoId
             THEN IF item.fallback \notin DOMAIN m
                  THEN Missing(item.fallback)
                  ELSE reader_validate_fallback_chain(m, item.fallback,
                                                      Append(fallback_chain, manifest_id))
             ELSE Valid

\* EpubBuilder::validate_fallback_chain
RECURSIVE builder_validate_fallback_chain(_, _, _)
builder_validate_fallback_chain(m, manifest_id, fallback_chain) ==
    IF Contains(fallback_chain, manifest_id)
    THEN Circular(Append(fallback_chain, manifest_id))
    ELSE LET item == m[manifest_id]
         IN  IF item.fallback # NoId
             THEN IF item.fallback \notin DOMAIN m
                  THEN Missing(item.fallback)
                  ELSE builder_validate_fallback_chain(m, item.fallback,
                                                       Append(fallback_chain, manifest_id))
             ELSE Valid

\* EpubDoc::validate_fallback_chains: one warning for each item that has a
\* fallback and whose chain is invalid; nothing is returned
validate_fallback_chains(m) ==
    {[id |-> id, result |-> reader_validate_fallback_chain(m, id, <<>>)] :
        id \in {k \in DOMAIN m : /\ m[k].fallback # NoId
                                 /\ ~reader_validate_fallback_chain(m, k, <<>>).ok}}

\* the orders in which a HashMap with the keys S may be iterated
RECURSIVE Orders(_)
Orders(S) ==
    IF S = {} THEN {<<>>}
    ELSE UNION {{<<x>> \o rest : rest \in Orders(S \ {x})} : x \in S}

\* only the first entry of the iteration is validated
validate_first_entry_only(m, order) ==
    IF order = <<>> \/ m[Head(order)].fallback = NoId THEN <<>>
    ELSE <<[id |-> Head(order),
            result |-> builder_validate_fallback_chain(m, Head(order), <<>>)]>>

\* EpubBuilder::validate_manifest_fallback_chains, the manifest being iterated
\* in the given order: the items visited, each with its result, up to and
\* including the first one that fails
RECURSIVE validate_manifest_fallback_chains(_, _)
validate_manifest_fallback_chains(m, order) ==
    IF order = <<>> THEN <<>>
    ELSE LET id == Head(order)
         IN  IF m[id].fallback = NoId
             THEN validate_manifest_fallback_chains(m, Tail(order))
             ELSE LET result == builder_validate_fallback_chain(m, id, <<>>)
                      visit == [id |-> id, result |-> result]
                  IN  IF result.ok
                      THEN <<visit>> \o validate_manifest_fallback_chains(m, Tail(order))
                      ELSE <<visit>>

----------------------------------------------------------------------------
(* Reader: parse_manifest and the fallback-aware fetch *)

Fetched(id) == [kind |-> "ok", id |-> id]
FetchErr(e, id) == [kind |-> "err", error |-> e, id |-> id]
NoSupportedFileFormat == [kind |-> "err", error |-> "NoSupportedFileFormat"]

\* EpubDoc::get_manifest_item for an id of the manifest: the item's bytes when
\* the archive holds a file at the item's path
get_manifest_item(m, id, in_archive) ==
    IF id \notin DOMAIN m THEN FetchErr("ResourceIdNotExist", id)
    ELSE IF in_archive THEN Fetched(id)
    ELSE FetchErr("ResourceNotFound", id)

\* the walk begins with the fallback of id, not with id itself
RECURSIVE fallback_loop_skipping_first(_, _, _, _, _)
fallback_loop_skipping_first(m, current_manifest_id, fallback_chain, supported_format, in_archive) ==
    LET manifest_item == m[current_manifest_id]
        fallback_id == manifest_item.fallback
    IN  IF fallback_id = NoId THEN NoSupportedFileFormat
        ELSE IF Contains(fallback_chain, fallback_id) THEN NoSupportedFileFormat
        ELSE IF fallback_id \notin DOMAIN m
        THEN FetchErr("ResourceIdNotExist", fallback_id)
        ELSE IF m[fallback_id].mime \in supported_format
        THEN get_manifest_item(m, fallback_id, in_archive)
        ELSE fallback_loop_skipping_first(m, fallback_id, Append(fallback_chain, fallback_id),
                                          supported_format, in_archive)

\* the 'fallback loop of get_manifest_item_with_fallback
RECURSIVE fallback_loop(_, _, _, _, _)
fallback_loop(m, current_manifest_id, fallback_chain, supported_format, in_archive) ==
    LET manifest_item == m[current_manifest_id]
        fallback_id == manifest_item.fallback
    IN  IF manifest_item.mime \in supported_format
        THEN get_manifest_item(m, current_manifest_id, in_archive)
        ELSE IF fallback_id = NoId THEN NoSupportedFileFormat
        ELSE IF Contains(fallback_chain, fallback_id) THEN NoSupportedFileFormat
        ELSE IF fallback_id \notin DOMAIN m
        THEN FetchErr("ResourceIdNotExist", fallback_id)
        ELSE fallback_loop(m, fallback_id, Append(fallback_chain, fallback_id),
                           supported_format, in_archive)

\* EpubDoc::get_manifest_item_with_fallback
get_manifest_item_with_fallback(m, id, supported_format, in_archive) ==
    IF id \notin DOMAIN m THEN FetchErr("ResourceIdNotExist", id)
    ELSE fallback_loop(m, id, <<>>, supported_format, in_archive)

Doc(m) == [kind |-> "doc", manifest |-> m]

\* the end of parse_manifest: the items become the document's manifest and the
\* fallback chains are validated, failures being logged only
ParseManifest ==
    /\ component = "reader"
    /\ doc_manifest = None
    /\ doc_manifest' = Doc(opf_manifest)
    /\ warnings' = validate_fallback_chains(opf_manifest)
    /\ UNCHANGED <<opf_manifest, fetch_result>>
    /\ UNCHANGED <<component, font_vars, open_vars, path_vars, builder_vars, spine_vars, version_vars>>

GetManifestItemWithFallback ==
    /\ component = "reader"
    /\ doc_manifest # None
    /\ \E id \in Ids, supported_format \in SUBSET Mimes, in_archive \in BOOLEAN :
         fetch_result' =
            [id |-> id, supported_format |-> supported_format,
             result |-> get_manifest_item_with_fallback(doc_manifest.manifest, id,
                                                        supported_format, in_archive)]
    /\ UNCHANGED <<opf_manifest, doc_manifest, warnings>>
    /\ UNCHANGED <<component, font_vars, open_vars, path_vars, builder_vars, spine_vars, version_vars>>

----------------------------------------------------------------------------
(* Builder: make *)

\* the text of a metadata value the caller did not choose with care
PlainValue == <<"v">>

\* MetadataItem: property, id, value and refinements (lang is left out)
MetadataItem(property, id) ==
    [property |-> property, id |-> id, value |-> PlainValue, refined |-> <<>>]

CompleteMetadata ==
    <<MetadataItem("title", NoId), MetadataItem("language", NoId),
      MetadataItem("identifier", "pub-id")>>

\* any identifier counts, whatever its id
validate_metadata_any_identifier(metadata) ==
    LET has_title == \E i \in 1..Len(metadata) : metadata[i].property = "title"
        has_language == \E i \in 1..Len(metadata) : metadata[i].property = "language"
        has_identifier == \E i \in 1..Len(metadata) : metadata[i].property = "identifier"
    IN  has_title /\ has_identifier /\ has_language

\* EpubBuilder::validate_metadata
validate_metadata(metadata) ==
    LET has_title == \E i \in 1..Len(metadata) : metadata[i].property = "title"
        has_language == \E i \in 1..Len(metadata) : metadata[i].property = "language"
        has_identifier == \E i \in 1..Len(metadata) :
                            /\ metadata[i].property = "identifier"
                            /\ metadata[i].id = "pub-id"
    IN  has_title /\ has_identifier /\ has_language

HasNavProperty(item) == Contains(item.properties, "nav")

\* one or more entries with the nav property are accepted
validate_manifest_nav_at_least_one(m) ==
    Cardinality({id \in DOMAIN m : HasNavProperty(m[id])}) >= 1

\* EpubBuilder::validate_manifest_nav
validate_manifest_nav(m) ==
    Cardinality({id \in DOMAIN m : HasNavProperty(m[id])}) = 1

NavItem ==
    [fallback |-> NoId, mime |-> "application/xhtml+xml", properties |-> <<"nav">>,
     path |-> <<"/", "nav.xhtml">>]

\* a caller entry with the id "nav" is kept
WithNav_keeping(m) ==
    IF "nav" \in DOMAIN m THEN m
    ELSE [id \in DOMAIN m \cup {"nav"} |-> IF id = "nav" THEN NavItem ELSE m[id]]

\* the manifest after make_navigation_document has registered the navigation
\* document under the id "nav"
WithNav(m) == [id \in DOMAIN m \cup {"nav"} |-> IF id = "nav" THEN NavItem ELSE m[id]]

MakeOk == [kind |-> "ok"]
MakeErr(e) == [kind |-> "err", error |-> e]

\* make_opf_metadata appends the modification timestamp; its value is
\* Utc::now().to_rfc3339_opts(..), a text without whitespace
Modified == [MetadataItem("dcterms:modified", NoId) EXCEPT !.value = <<"now">>]

\* the staging workspace
Workspace(files, dirs) == [exists |-> TRUE, files |-> files, dirs |-> dirs]
Deleted == [exists |-> FALSE, files |-> {}, dirs |-> {}]

MetaInf == PathJoin(TempDir, <<"META-INF">>)
ContainerXml == PathJoin(MetaInf, <<"container.xml">>)

\* EpubBuilder::new: temp_dir, temp_dir/META-INF and temp_dir/mimetype
NewWorkspace == Workspace({PathJoin(TempDir, <<"mimetype">>)}, {TempDir, MetaInf})

\* fs::create_dir_all(dir): dir and the ancestors it lacks
RECURSIVE DirsTo(_)
DirsTo(dir) ==
    IF dir = TempDir \/ ~HasParent(dir) THEN {dir} ELSE {dir} \cup DirsTo(Parent(dir))

RECURSIVE Below(_, _)
\* p lies, at any depth, in the directory dir
Below(p, dir) == HasParent(p) /\ (Parent(p) = dir \/ Below(Parent(p), dir))

\* fs::write(path, ..) succeeds when the directory of path exists
Writable(ws, path) == HasParent(path) /\ Parent(path) \in ws.dirs

\* EpubBuilder::remove_empty_dirs: deepest first, so that a directory stays
\* exactly when a file lies somewhere below it
remove_empty_dirs(ws) ==
    [ws EXCEPT !.dirs = {d \in @ : d = TempDir \/ \E f \in ws.files : Below(f, d)}]

\* the builder value that the methods work on
Builder ==
    [rootfiles |-> b_rootfiles, metadata |-> b_metadata, catalog |-> b_catalog,
     spine |-> b_spine, manifest |-> b_manifest, ws |-> workspace, log |-> <<>>]

Passed(b) == [result |-> MakeOk, b |-> b]
Failed(b, result) == [result |-> result, b |-> b]

\* EpubBuilder::make_container_xml
make_container_xml(b) ==
    IF b.rootfiles = <<>> THEN Failed(b, MakeErr("MissingRootfile"))
    ELSE IF ~Writable(b.ws, ContainerXml) THEN Failed(b, MakeErr("Io"))
    ELSE Passed([b EXCEPT !.ws.files = @ \cup {ContainerXml}])

\* EpubBuilder::make_navigation_document
make_navigation_document(b) ==
    IF b.catalog = <<>> THEN Failed(b, MakeErr("NavigationInfoUninitalized"))
    ELSE Passed([b EXCEPT !.ws.files = @ \cup {PathJoin(TempDir, <<"nav.xhtml">>)},
                          !.manifest = WithNav(@)])

\* EpubBuilder::make_opf_file, the manifest being iterated in the given order
make_opf_file(b, order) ==
    IF ~validate_metadata(b.metadata)
    THEN Failed(b, MakeErr("MissingNecessaryMetadata"))
    ELSE LET log == validate_manifest_fallback_chains(b.manifest, order)
             visited == [b EXCEPT !.log = log]
             stamped == [visited EXCEPT !.metadata = Append(@, Modified)]
             opf == PathJoin(TempDir, b.rootfiles[1])
             fallback_err(result) ==
                 IF result.error = "circular"
                 THEN [kind |-> "err", error |-> "ManifestCircularReference",
                       fallback_chain |-> result.message]
                 ELSE [kind |-> "err", error |-> "ManifestNotFound",
                       manifest_id |-> result.id]
         IN  IF log # <<>> /\ ~Last(log).result.ok
             THEN Failed(visited, fallback_err(Last(log).result))
             ELSE IF ~validate_manifest_nav(b.manifest)
             THEN Failed(visited, MakeErr("TooManyNavFlags"))
             ELSE IF ~Writable(b.ws, opf) THEN Failed(stamped, MakeErr("Io"))
             ELSE Passed([stamped EXCEPT !.ws.files = @ \cup {opf}])

\* an entry of the output archive: its name in the container and the
\* compression method it was written with
Entry(path, method) == [name |-> StripPrefix(path, TempDir), method |-> method]

\* the loop of make over WalkDir::new(&self.temp_dir): the walk yields the
\* root directory first and the rest in the order the directories list
\* them; every entry is started with the same FileOptions
pack(ws) ==
    [first |-> Entry(TempDir, "Stored"),
     rest |-> {Entry(p, "Stored") : p \in (ws.dirs \ {TempDir}) \cup ws.files}]

\* the package document is written whatever its checks say
make_unchecked(b, order) ==
    LET container == make_container_xml(b)
    IN  IF container.result # MakeOk THEN container
        ELSE LET navigation == make_navigation_document(container.b)
             IN  IF navigation.result # MakeOk THEN navigation
                 ELSE Passed([make_opf_file(navigation.b, order).b
                                EXCEPT !.ws = remove_empty_dirs(@)])

\* the body of EpubBuilder::make
make(b, order) ==
    LET container == make_container_xml(b)
    IN  IF container.result # MakeOk THEN container
        ELSE LET navigation == make_navigation_document(container.b)
             IN  IF navigation.result # MakeOk THEN navigation
                 ELSE LET opf == make_opf_file(navigation.b, order)
                      IN  IF opf.result # MakeOk THEN opf
                          ELSE Passed([opf.b EXCEPT !.ws = remove_empty_dirs(@)])

\* a failed removal is not logged
drop_silent(ws, removal_fails) ==
    IF removal_fails THEN [ws |-> ws, warned |-> FALSE]
    ELSE [ws |-> Deleted, warned |-> FALSE]

\* Drop for EpubBuilder: fs::remove_dir_all(&self.temp_dir) either removes
\* the directory or fails, and a failure is logged
drop(ws, removal_fails) ==
    IF removal_fails THEN [ws |-> ws, warned |-> TRUE]
    ELSE [ws |-> Deleted, warned |-> FALSE]

\* EpubBuilder::make consumes the builder: whatever it returns, the builder
\* is dropped when it returns
Make ==
    /\ component \in {"builder", "lifecycle", "finalize"}
    /\ b_alive
    /\ make_result = None
    /\ \E order \in Orders(DOMAIN WithNav(b_manifest)), removal_fails \in BOOLEAN :
         LET made == make(Builder, order)
             dropped == drop(made.b.ws, removal_fails)
         IN  /\ make_result' = made.result
             /\ b_manifest' = made.b.manifest
             /\ b_metadata' = made.b.metadata
             /\ visit_log' = made.b.log
             /\ output_written' = (made.result = MakeOk)
             /\ archive' = IF made.result = MakeOk THEN pack(made.b.ws) ELSE archive
             /\ workspace' = dropped.ws
             /\ drop_warned' = dropped.warned
             /\ b_call' = [op |-> "make", ret |-> made.result]
    /\ b_alive' = FALSE
    /\ UNCHANGED <<b_rootfiles, b_catalog, b_spine>>
    /\ UNCHANGED <<component, font_vars, open_vars, path_vars, fallback_vars, spine_vars, version_vars>>

\* either a publication about to be read or a builder about to be finalized
FallbackInit ==
    /\ Idle({"path", "spine", "version", "font", "open"})
    /\ \/ /\ component = "reader"
          /\ opf_manifest \in Manifests
          /\ doc_manifest = None /\ warnings = {} /\ fetch_result = None
          /\ Idle({"builder"})
       \/ /\ component = "builder"
          /\ Idle({"fallback"})
          /\ b_manifest \in Manifests
          /\ \E config \in
                {[rootfiles |-> <<PackageAt(0)>>, metadata |-> CompleteMetadata,
                  catalog |-> <<"n">>],
                 [rootfiles |-> <<>>, metadata |-> CompleteMetadata,
                  catalog |-> <<"n">>],
                 [rootfiles |-> <<PackageAt(0)>>, metadata |-> CompleteMetadata,
                  catalog |-> <<>>],
                 [rootfiles |-> <<PackageAt(0)>>, metadata |-> <<>>,
                  catalog |-> <<"n">>],
                 [rootfiles |-> <<PackageAt(0)>>,
                  metadata |-> <<MetadataItem("title", NoId),
                                 MetadataItem("language", NoId),
                                 MetadataItem("identifier", NoId)>>,
                  catalog |-> <<"n">>]} :
                /\ b_rootfiles = config.rootfiles
                /\ b_metadata = config.metadata
                /\ b_catalog = config.catalog
                /\ b_spine = <<>>
          /\ visit_log = <<>> /\ make_result = None /\ output_written = FALSE
          /\ workspace = Workspace(NewWorkspace.files \cup
                                     {PathJoin(TempDir, <<id>>) : id \in DOMAIN b_manifest},
                                   NewWorkspace.dirs)
          /\ archive = None /\ b_alive = TRUE
          /\ drop_warned = FALSE /\ b_call = None

FallbackSpec == FallbackInit /\ [][ParseManifest \/ GetManifestItemWithFallback \/ Make]_vars

----------------------------------------------------------------------------
(* Builder: configuration, staging and disposal *)

Done == [kind |-> "ok"]
Panic == [kind |-> "panic"]
Returns(ret, b) == [ret |-> ret, b |-> b]

\* EpubBuilder::add_rootfile
add_rootfile(b, rootfile) ==
    IF StrStartsWith(rootfile, Slash) \/ StrStartsWith(rootfile, DotDotSlash)
    THEN Returns(MakeErr("IllegalRootfilePath"), b)
    ELSE LET stripped == IF StrStartsWith(rootfile, DotSlash) THEN Drop(rootfile, 2)
                         ELSE rootfile
         IN  Returns(Done, [b EXCEPT !.rootfiles = Append(@, stripped)])

\* EpubBuilder::remove_last_rootfile
remove_last_rootfile(b) ==
    Returns(Done, [b EXCEPT !.rootfiles = IF @ = <<>> THEN @ ELSE Front(@)])

\* EpubBuilder::clear_rootfiles
clear_rootfiles(b) == Returns(Done, [b EXCEPT !.rootfiles = <<>>])

\* EpubBuilder::add_metadata
add_metadata(b, item) == Returns(Done, [b EXCEPT !.metadata = Append(@, item)])

\* EpubBuilder::add_catalog_item
add_catalog_item(b, item) == Returns(Done, [b EXCEPT !.catalog = Append(@, item)])

\* SpineItem::new(idref): linear by default
SpineItem(idref) == [idref |-> idref, linear |-> TRUE]

\* EpubBuilder::add_spine
add_spine(b, item) == Returns(Done, [b EXCEPT !.spine = Append(@, item)])

\* EpubBuilder::remove_last_spine
remove_last_spine(b) ==
    Returns(Done, [b EXCEPT !.spine = IF @ = <<>> THEN @ ELSE Front(@)])

\* EpubBuilder::take_last_spine
take_last_spine(b) ==
    Returns([kind |-> IF b.spine = <<>> THEN "none" ELSE "some"],
            [b EXCEPT !.spine = IF @ = <<>> THEN @ ELSE Front(@)])

\* EpubBuilder::clear_spines
clear_spines(b) == Returns(Done, [b EXCEPT !.spine = <<>>])

\* self.normalize_manifest_path(&item.path, &item.id): self.rootfiles[0]
\* is indexed without a check
normalize(b, item) ==
    IF b.rootfiles = <<>> THEN Panic
    ELSE builder_normalize_manifest_path(b.rootfiles[1], item.path)

\* a manifest item as the builder holds it
StagedItem(path, mime, properties) ==
    [fallback |-> NoId, mime |-> mime, properties |-> properties, path |-> path]

Insert(m, id, item) == [k \in DOMAIN m \cup {id} |-> IF k = id THEN item ELSE m[k]]

\* EpubBuilder::add_manifest; source says what lies at manifest_source
add_manifest(b, source, id, item) ==
    IF b.rootfiles = <<>> THEN Returns(MakeErr("MissingRootfile"), b)
    ELSE IF source = "not a file" THEN Returns(MakeErr("TargetIsNotFile"), b)
    ELSE IF source = "unknown format" THEN Returns(MakeErr("UnknownFileFormat"), b)
    ELSE LET copy(target, made) ==
                 IF target.path \in made.ws.dirs THEN Returns(MakeErr("Io"), made)
                 ELSE Returns(Done,
                              [made EXCEPT !.ws.files = @ \cup {target.path},
                                           !.manifest = Insert(@, id, item)])
             stage(target) ==
                 IF target.kind = "panic" THEN Returns(Panic, b)
                 ELSE IF target.kind = "err" THEN Returns(MakeErr(target.error), b)
                 ELSE copy(target,
                           [b EXCEPT !.ws.dirs =
                              IF HasParent(target.path)
                              THEN @ \cup DirsTo(Parent(target.path)) ELSE @])
         IN  stage(normalize(b, item))

\* EpubBuilder::remove_manifest: the entry leaves the map before its path
\* is normalized and its file removed
remove_manifest(b, id) ==
    IF id \notin DOMAIN b.manifest THEN Returns(Done, b)
    ELSE LET removed == [b EXCEPT !.manifest = [k \in DOMAIN @ \ {id} |-> @[k]]]
             unstage(target) ==
                 IF target.kind = "panic" THEN Returns(Panic, removed)
                 ELSE IF target.kind = "err" THEN Returns(MakeErr(target.error), removed)
                 ELSE IF target.path \notin b.ws.files THEN Returns(MakeErr("Io"), removed)
                 ELSE Returns(Done, [removed EXCEPT !.ws.files = @ \ {target.path}])
         IN  unstage(normalize(b, b.manifest[id]))

\* EpubBuilder::take_manifest: errors become None
take_manifest(b, id) ==
    LET taken(removed) ==
            IF id \notin DOMAIN b.manifest THEN Returns([kind |-> "none"], b)
            ELSE IF removed.ret = Panic THEN removed
            ELSE IF removed.ret = Done THEN Returns([kind |-> "some"], removed.b)
            ELSE Returns([kind |-> "none"], removed.b)
    IN  taken(remove_manifest(b, id))

\* EpubBuilder::clear_manifests: the keys are removed in the order the map
\* yields them, up to the first failure
RECURSIVE clear_manifests(_, _)
clear_manifests(b, keys) ==
    IF keys = <<>> THEN Returns(Done, b)
    ELSE LET rest(removed) ==
                 IF removed.ret # Done THEN removed
                 ELSE clear_manifests(removed.b, Tail(keys))
         IN  rest(remove_manifest(b, Head(keys)))

\* EpubBuilder::clear_all: metadata, manifest, spine, catalog, in this order
clear_all(b, keys) ==
    LET rest(cleared) ==
            IF cleared.ret # Done THEN cleared
            ELSE Returns(Done, [cleared.b EXCEPT !.spine = <<>>, !.catalog = <<>>])
    IN  rest(clear_manifests([b EXCEPT !.metadata = <<>>], keys))

\* what the caller may hand to the builder
StagedIds == {"a", "nav"}
PathArgs == {<<"a">>, <<"b", "/", "a">>, <<".", "/", "a">>}

\* a builder operation returns: the builder is updated; a panic unwinds and
\* drops the builder
Return(op, outcome) ==
    /\ b_call' = [op |-> op, ret |-> outcome.ret]
    /\ b_rootfiles' = outcome.b.rootfiles
    /\ b_metadata' = outcome.b.metadata
    /\ b_catalog' = outcome.b.catalog
    /\ b_spine' = outcome.b.spine
    /\ b_manifest' = outcome.b.manifest
    /\ IF outcome.ret = Panic
       THEN /\ b_alive' = FALSE
            /\ \E removal_fails \in BOOLEAN :
                  /\ workspace' = drop(outcome.b.ws, removal_fails).ws
                  /\ drop_warned' = drop(outcome.b.ws, removal_fails).warned
       ELSE /\ workspace' = outcome.b.ws
            /\ UNCHANGED <<b_alive, drop_warned>>
    /\ UNCHANGED <<visit_log, make_result, output_written, archive>>
    /\ UNCHANGED <<component, font_vars, open_vars, path_vars, fallback_vars, spine_vars, version_vars>>

Configuring == component \in {"lifecycle", "staging"} /\ b_alive

AddRootfile ==
    /\ Configuring /\ Len(b_rootfiles) < MaxRootfiles
    /\ \E rootfile \in {<<"c">>, <<"a", "/", "c">>, <<".", "/", "c">>, <<"/", "c">>} :
          Return("add_rootfile", add_rootfile(Builder, rootfile))

RemoveLastRootfile ==
    /\ Configuring
    /\ Return("remove_last_rootfile", remove_last_rootfile(Builder))

ClearRootfiles ==
    /\ Configuring
    /\ Return("clear_rootfiles", clear_rootfiles(Builder))

AddMetadata ==
    /\ Configuring /\ Len(b_metadata) < MaxAdded
    /\ \E item \in {MetadataItem("title", NoId), MetadataItem("language", NoId),
                     MetadataItem("identifier", "pub-id"),
                     MetadataItem("identifier", NoId)} :
          Return("add_metadata", add_metadata(Builder, item))

AddCatalogItem ==
    /\ Configuring /\ Len(b_catalog) < MaxAdded
    /\ Return("add_catalog_item", add_catalog_item(Builder, "n"))

AddSpine ==
    /\ Configuring /\ Len(b_spine) < MaxAdded
    /\ Return("add_spine", add_spine(Builder, SpineItem("a")))

RemoveLastSpine ==
    /\ Configuring
    /\ Return("remove_last_spine", remove_last_spine(Builder))

TakeLastSpine ==
    /\ Configuring
    /\ Return("take_last_spine", take_last_spine(Builder))

ClearSpines ==
    /\ Configuring
    /\ Return("clear_spines", clear_spines(Builder))

AddManifest ==
    /\ Configuring
    /\ \E source \in {"png file", "not a file", "unknown format"}, id \in StagedIds,
          path \in PathArgs :
          Return("add_manifest",
                 add_manifest(Builder, source, id,
                              StagedItem(path, "image/png", NoProperties)))

RemoveManifest ==
    /\ Configuring
    /\ \E id \in StagedIds : Return("remove_manifest", remove_manifest(Builder, id))

TakeManifest ==
    /\ Configuring
    /\ \E id \in StagedIds : Return("take_manifest", take_manifest(Builder, id))

ClearManifests ==
    /\ Configuring
    /\ \E keys \in Orders(DOMAIN b_manifest) :
          Return("clear_manifests", clear_manifests(Builder, keys))

ClearAll ==
    /\ Configuring
    /\ \E keys \in Orders(DOMAIN b_manifest) :
          Return("clear_all", clear_all(Builder, keys))

\* the builder goes out of scope without having been finalized
Discard ==
    /\ component \in {"lifecycle", "finalize"}
    /\ b_alive
    /\ b_alive' = FALSE
    /\ \E removal_fails \in BOOLEAN :
          /\ workspace' = drop(workspace, removal_fails).ws
          /\ drop_warned' = drop(workspace, removal_fails).warned
    /\ b_call' = [op |-> "drop", ret |-> Done]
    /\ UNCHANGED <<b_rootfiles, b_metadata, b_catalog, b_spine, b_manifest, visit_log,
                   make_result, output_written, archive>>
    /\ UNCHANGED <<component, font_vars, open_vars, path_vars, fallback_vars, spine_vars, version_vars>>

\* the builder EpubBuilder::new returns
NewBuilder ==
    [rootfiles |-> <<>>, metadata |-> <<>>, catalog |-> <<>>, spine |-> <<>>,
     manifest |-> <<>>, ws |-> NewWorkspace, log |-> <<>>]

\* the variables hold the builder b, on which nothing was called yet
Holds(b) ==
    /\ b_rootfiles = b.rootfiles /\ b_metadata = b.metadata /\ b_catalog = b.catalog
    /\ b_spine = b.spine /\ b_manifest = b.manifest /\ workspace = b.ws
    /\ visit_log = <<>> /\ make_result = None /\ output_written = FALSE
    /\ archive = None /\ b_alive = TRUE /\ drop_warned = FALSE /\ b_call = None

\* the state EpubBuilder::new returns
BuilderInit ==
    /\ component = "lifecycle"
    /\ Idle({"path", "fallback", "spine", "version", "font", "open"})
    /\ Holds(NewBuilder)

BuilderSpec ==
    BuilderInit
      /\ [][\/ AddRootfile \/ RemoveLastRootfile \/ ClearRootfiles
            \/ AddMetadata \/ AddCatalogItem
            \/ AddManifest \/ RemoveManifest \/ TakeManifest \/ ClearManifests
            \/ ClearAll \/ Make \/ Discard]_vars

----------------------------------------------------------------------------
(* Builder: finalizing a configured builder *)

RECURSIVE AddEach(_, _)
\* add_manifest for each of the given <<id, item>> pairs, in turn
AddEach(b, pairs) ==
    IF pairs = <<>> THEN b
    ELSE AddEach(add_manifest(b, "png file", Head(pairs)[1], Head(pairs)[2]).b,
                 Tail(pairs))

RECURSIVE SubSequences(_)
SubSequences(seq) ==
    IF seq = <<>> THEN {<<>>}
    ELSE LET rest == SubSequences(Tail(seq))
         IN  rest \cup {<<Head(seq)>> \o r : r \in rest}

\* a builder as a caller may have configured it: rootfiles added, resources
\* staged, metadata and catalog filled, and then possibly the rootfiles
\* cleared again
Configured(rootfiles, pairs, metadata, catalog, cleared) ==
    LET staged == AddEach([NewBuilder EXCEPT !.rootfiles = rootfiles], pairs)
    IN  [staged EXCEPT !.metadata = metadata, !.catalog = catalog,
                       !.rootfiles = IF cleared THEN <<>> ELSE @]

\* the metadata a caller may have added: any of four items, each at most
\* once; the resources staged: with or without the nav property
MakeInit ==
    /\ component = "finalize"
    /\ Idle({"path", "fallback", "spine", "version", "font", "open"})
    /\ \E rootfiles \in {<<>>, <<PackageAt(0)>>, <<PackageAt(1)>>},
          pairs \in UNION {[1..n -> StagedIds
                                     \X {StagedItem(path, "image/png", properties) :
                                           path \in PathArgs,
                                           properties \in {NoProperties, <<"nav">>}}] :
                             n \in 0..MaxStaged},
          metadata \in SubSequences(<<MetadataItem("title", NoId),
                                      MetadataItem("language", NoId),
                                      MetadataItem("identifier", "pub-id"),
                                      MetadataItem("identifier", NoId)>>),
          catalog \in {<<>>, <<"n">>},
          cleared \in BOOLEAN :
            Holds(Configured(rootfiles, pairs, metadata, catalog, cleared))

MakeSpec == MakeInit /\ [][Make \/ Discard]_vars

----------------------------------------------------------------------------
(* Reader: the spine cursor *)

\* spine[index] for the 0-based index of the code
At(sp, index) == sp[index + 1]

\* what a call does: the cursor afterwards, whether the call assigned it, and
\* what it returned ("some", "none", or "panic" when the call does not return)
CallEffect(cursor, assigned, ret) == [cursor |-> cursor, assigned |-> assigned, ret |-> ret]

\* get_manifest_item(&manifest_id).ok()
fetch(sp, index) == IF At(sp, index).fetchable THEN "some" ELSE "none"

\* a jump to a non-linear entry is refused
navigate_linear_only(sp, cursor, index) ==
    IF index >= Len(sp) \/ ~At(sp, index).linear
    THEN CallEffect(cursor, FALSE, "none")
    ELSE CallEffect(index, TRUE, fetch(sp, index))

\* EpubDoc::navigate_by_spine_index
navigate_by_spine_index(sp, cursor, index) ==
    IF index >= Len(sp) THEN CallEffect(cursor, FALSE, "none")
    ELSE CallEffect(index, TRUE, fetch(sp, index))

\* the cursor is put back when the resource cannot be fetched
spine_prev_restoring(sp, cursor) ==
    IF cursor = 0 \/ ~At(sp, cursor).linear
    THEN CallEffect(cursor, FALSE, "none")
    ELSE LET candidates == {index \in 0..(cursor - 1) : At(sp, index).linear}
         IN  IF candidates = {} THEN CallEffect(cursor, FALSE, "none")
             ELSE LET prev_index == CHOOSE index \in candidates :
                                        \A other \in candidates : other <= index
                  IN  IF fetch(sp, prev_index) = "none"
                      THEN CallEffect(cursor, FALSE, "none")
                      ELSE CallEffect(prev_index, TRUE, fetch(sp, prev_index))

\* EpubDoc::spine_prev; "cursor == 0 ||" is evaluated first, so the empty
\* spine is never indexed
spine_prev(sp, cursor) ==
    IF cursor = 0 \/ ~At(sp, cursor).linear
    THEN CallEffect(cursor, FALSE, "none")
    ELSE LET candidates == {index \in 0..(cursor - 1) : At(sp, index).linear}
         IN  IF candidates = {} THEN CallEffect(cursor, FALSE, "none")
             ELSE LET prev_index == CHOOSE index \in candidates :
                                        \A other \in candidates : other <= index
                  IN  CallEffect(prev_index, TRUE, fetch(sp, prev_index))

\* the next entry is taken whether or not it is linear
spine_next_no_skip(sp, cursor) ==
    IF Len(sp) = 0 THEN CallEffect(cursor, FALSE, "panic")
    ELSE IF cursor >= Len(sp) - 1 \/ ~At(sp, cursor).linear
    THEN CallEffect(cursor, FALSE, "none")
    ELSE CallEffect(cursor + 1, TRUE, fetch(sp, cursor + 1))

\* EpubDoc::spine_next; on an empty spine "self.spine.len() - 1" overflows
\* (a panic with overflow checks, and without them the wrapped bound lets
\* self.spine[0] be indexed out of range, a panic as well)
spine_next(sp, cursor) ==
    IF Len(sp) = 0 THEN CallEffect(cursor, FALSE, "panic")
    ELSE IF cursor >= Len(sp) - 1 \/ ~At(sp, cursor).linear
    THEN CallEffect(cursor, FALSE, "none")
    ELSE LET candidates == {index \in (cursor + 1)..(Len(sp) - 1) : At(sp, index).linear}
         IN  IF candidates = {} THEN CallEffect(cursor, FALSE, "none")
             ELSE LET next_index == CHOOSE index \in candidates :
                                        \A other \in candidates : index <= other
                  IN  CallEffect(next_index, TRUE, fetch(sp, next_index))

\* EpubDoc::spine_current indexes the spine without a check
spine_current(sp, cursor) ==
    IF cursor >= Len(sp) THEN CallEffect(cursor, FALSE, "panic")
    ELSE CallEffect(cursor, FALSE, fetch(sp, cursor))

\* no call is made on a document after a call has panicked
Alive ==
    /\ component = "spine"
    /\ IF spine_call = None THEN TRUE ELSE spine_call.ret # "panic"

Apply(op, arg, outcome) ==
    /\ current_spine_index' = outcome.cursor
    /\ cursor_set_by' = IF outcome.assigned THEN op ELSE cursor_set_by
    /\ spine_call' = [kind |-> "call", op |-> op, arg |-> arg,
                      from |-> current_spine_index, ret |-> outcome.ret]
    /\ UNCHANGED spine
    /\ UNCHANGED <<component, font_vars, open_vars, path_vars, fallback_vars, builder_vars, version_vars>>

NavigateBySpineIndex ==
    /\ Alive
    /\ \E index \in 0..(MaxSpine + 1) :
         Apply("navigate", index, navigate_by_spine_index(spine, current_spine_index, index))

SpinePrev ==
    /\ Alive
    /\ Apply("prev", 0, spine_prev(spine, current_spine_index))

SpineNext ==
    /\ Alive
    /\ Apply("next", 0, spine_next(spine, current_spine_index))

SpineCurrent ==
    /\ Alive
    /\ Apply("current", 0, spine_current(spine, current_spine_index))

\* from_reader: the parsed spine, the cursor at 0; an itemref is its linear
\* flag, and whether get_manifest_item finds the resource its idref names
SpineInit ==
    /\ Idle({"path", "fallback", "builder", "version", "font", "open"})
    /\ component = "spine"
    /\ spine \in UNION {[1..n -> [linear : BOOLEAN, fetchable : BOOLEAN]] :
                           n \in 0..MaxSpine}
    /\ current_spine_index = 0
    /\ spine_call = None
    /\ cursor_set_by = "open"

SpineSpec == SpineInit /\ [][NavigateBySpineIndex \/ SpinePrev \/ SpineNext \/ SpineCurrent]_vars

----------------------------------------------------------------------------
(* Reader: version detection *)

Absent == "absent"

VersionOk(v) == [kind |-> "ok", version |-> v]
VersionErr(e, tag) == [kind |-> "err", error |-> e, tag |-> tag]
UnrecognizedEpubVersion == VersionErr("UnrecognizedEpubVersion", "")

\* the manifest is looked at before the spine
determine_epub_version_nav_first(opf) ==
    IF opf.version \in {"2.0", "3.0"} THEN VersionOk(opf.version)
    ELSE IF opf.manifest.present /\ "nav" \in opf.manifest.ids THEN VersionOk("3.0")
    ELSE IF opf.spine = Absent THEN VersionErr("NonCanonicalFile", "spine")
    ELSE IF opf.spine = "spine toc" THEN VersionOk("2.0")
    ELSE IF ~opf.manifest.present THEN VersionErr("NonCanonicalFile", "manifest")
    ELSE UnrecognizedEpubVersion

\* EpubDoc::determine_epub_version
determine_epub_version(opf) ==
    IF opf.version \in {"2.0", "3.0"} THEN VersionOk(opf.version)
    ELSE IF opf.spine = Absent THEN VersionErr("NonCanonicalFile", "spine")
    ELSE IF opf.spine = "spine toc" THEN VersionOk("2.0")
    ELSE IF ~opf.manifest.present THEN VersionErr("NonCanonicalFile", "manifest")
    ELSE IF "nav" \in opf.manifest.ids THEN VersionOk("3.0")
    ELSE UnrecognizedEpubVersion

DetermineEpubVersion ==
    /\ component = "version"
    /\ version_result = None
    /\ version_result' = determine_epub_version(opf_element)
    /\ UNCHANGED opf_element
    /\ UNCHANGED <<component, font_vars, open_vars, path_vars, fallback_vars, builder_vars, spine_vars>>

VersionInit ==
    /\ Idle({"path", "fallback", "builder", "spine", "font", "open"})
    /\ component = "version"
    /\ opf_element \in
           [version : {Absent, "2.0", "3.0", "0", "3.1"},
            spine : {Absent, "spine", "spine toc"},
            manifest : {[present |-> FALSE, ids |-> {}]}
                       \cup {[present |-> TRUE, ids |-> ids] :
                              ids \in SUBSET {"nav", "Nav", "a"}}]
    /\ version_result = None

VersionSpec == VersionInit /\ [][DetermineEpubVersion]_vars

----------------------------------------------------------------------------
(* Font obfuscation *)

ByteWidth == 8
Byte == 256

RECURSIVE BitXor(_, _, _)
\* a ^ b on integers of n bits
BitXor(a, b, n) ==
    IF n = 0 THEN 0
    ELSE (((a % 2) + (b % 2)) % 2) + 2 * BitXor(a \div 2, b \div 2, n - 1)

Xor(a, b) == BitXor(a, b, ByteWidth)

RECURSIVE SumBytes(_)
SumBytes(bytes) == IF bytes = <<>> THEN 0 ELSE bytes[1] + SumBytes(Tail(bytes))

HashLen == 20

\* Sha1::new().update(key).finalize(): a 20-byte digest that depends on the
\* key and on nothing else (the digest function itself is the sha1 crate's)
Sha1(key) ==
    [j \in 1..HashLen |-> (31 * SumBytes(key) + 7 * j + Len(key)) % Byte]

IdpfWindow == 1040
AdobeWindow == 1024
AdobeKeyLen == 16

Min(a, b) == IF a < b THEN a ELSE b

\* A byte buffer is followed through the transform at one of its positions:
\* its length and the byte at that position; the empty buffer has no byte.
Buffer(len, index, byte) == [len |-> len, index |-> index, byte |-> byte]
EmptyBuffer == Buffer(0, 0, 0)

Returned(buffer) == [kind |-> "returned", data |-> buffer]

\* idpf_font_encryption (idpf_font_dencryption calls it)
idpf_font_encryption(data, key) ==
    IF data.len = 0 THEN Returned(EmptyBuffer)
    ELSE LET hash == Sha1(key)
             keystream(index) == hash[(index % HashLen) + 1]
         IN  IF data.index < Min(IdpfWindow, data.len)
             THEN Returned(Buffer(data.len, data.index,
                                  Xor(data.byte, keystream(data.index))))
             ELSE Returned(data)

RECURSIVE ExtendKey(_, _)
\* while key_vec.len() < 16 { key_vec.extend_from_slice(key) }, for a key
\* that is not empty
ExtendKey(key_vec, key) ==
    IF Len(key_vec) >= AdobeKeyLen THEN key_vec ELSE ExtendKey(key_vec \o key, key)

\* adobe_font_encryption (adobe_font_dencryption calls it); with an empty
\* key the loop that fills key_vec appends nothing and never ends
adobe_font_encryption(data, key) ==
    IF data.len = 0 THEN Returned(EmptyBuffer)
    ELSE IF key = <<>> THEN [kind |-> "never returns"]
    ELSE LET key_vec == ExtendKey(key, key)
             key16 == SubSeq(key_vec, 1, Min(AdobeKeyLen, Len(key_vec)))
         IN  IF data.index < Min(AdobeWindow, data.len)
             THEN Returned(Buffer(data.len, data.index,
                                  Xor(data.byte, key16[(data.index % AdobeKeyLen) + 1])))
             ELSE Returned(data)

transform(method, data, key) ==
    IF method = "idpf" THEN idpf_font_encryption(data, key)
    ELSE adobe_font_encryption(data, key)

\* the keys and buffers the transforms are given: short keys, a key longer
\* than 16 bytes, and buffers around the ends of both windows
FontInit ==
    /\ component = "font"
    /\ Idle({"path", "fallback", "builder", "spine", "version", "open"})
    /\ font_method \in {"idpf", "adobe"}
    /\ font_key \in UNION {[1..n -> {49, 50}] : n \in 0..MaxKeyLen}
                    \cup {[i \in 1..(AdobeKeyLen + 1) |-> 64 + i]}
    /\ font_data \in
           {EmptyBuffer} \cup
           UNION {{Buffer(len, index, byte) :
                       index \in {p \in {0, 1, AdobeKeyLen - 1, AdobeKeyLen,
                                          HashLen - 1, HashLen,
                                          AdobeWindow - 1, AdobeWindow,
                                          IdpfWindow - 1, IdpfWindow} : p < len},
                       byte \in {0, 1, 90, 165, 255}} :
                  len \in {1, AdobeKeyLen + 1, AdobeWindow, AdobeWindow + 1,
                           IdpfWindow, IdpfWindow + 1}}
    /\ font_once = None /\ font_twice = None

\* the transform is applied to the buffer
Obfuscate ==
    /\ component = "font"
    /\ font_once = None
    /\ font_once' = transform(font_method, font_data, font_key)
    /\ UNCHANGED <<font_method, font_key, font_data, font_twice>>
    /\ UNCHANGED <<component, path_vars, fallback_vars, builder_vars, spine_vars,
                   version_vars, open_vars>>

\* the transform is applied, with the same key, to what the first
\* application returned
Deobfuscate ==
    /\ component = "font"
    /\ font_once # None /\ font_twice = None
    /\ font_once.kind = "returned"
    /\ font_twice' = transform(font_method, font_once.data, font_key)
    /\ UNCHANGED <<font_method, font_key, font_data, font_once>>
    /\ UNCHANGED <<component, path_vars, fallback_vars, builder_vars, spine_vars,
                   version_vars, open_vars>>

FontSpec == FontInit /\ [][Obfuscate \/ Deobfuscate]_vars

----------------------------------------------------------------------------
(* XML documents of a publication *)

RECURSIVE WordLen(_)
\* the length of the run of non-blank characters s starts with
WordLen(s) == IF s = <<>> \/ Head(s) = " " THEN 0 ELSE 1 + WordLen(Tail(s))

RECURSIVE split_whitespace(_)
\* str::split_whitespace
split_whitespace(s) ==
    IF s = <<>> THEN <<>>
    ELSE IF Head(s) = " " THEN split_whitespace(Tail(s))
    ELSE <<SubSeq(s, 1, WordLen(s))>> \o split_whitespace(Drop(s, WordLen(s)))

\* NormalizeWhitespace::normalize_whitespace
normalize_whitespace(s) == JoinWith(split_whitespace(s), <<" ">>)

\* an XmlElement: namespace, local name, attributes and text; an attribute
\* is there when its name is in the domain of attrs
Element(ns, name, attrs, text) == [ns |-> ns, name |-> name, attrs |-> attrs, text |-> text]

NoAttrs == [n \in {} |-> ""]

\* the first element of a name below the root of a document, when there is one
NoElement == [present |-> FALSE]
Found(attrs, children) == [present |-> TRUE, attrs |-> attrs, children |-> children]

\* get_attr(name).is_some()
has_attr(element, name) == name \in DOMAIN element.attrs

\* an EpubError of from_reader, with the tag or file it names
OpenErr(error, tag) == [kind |-> "err", error |-> error, tag |-> tag]

DcElements ==
    {"contributor", "coverage", "creator", "date", "description", "format", "identifier",
     "language", "publisher", "relation", "rights", "source", "subject", "title", "type"}

----------------------------------------------------------------------------
(* Builder: the documents make writes *)

\* MetadataItem::attributes
metadata_attributes(item) ==
    [n \in (IF item.property \in DcElements THEN {} ELSE {"property"})
             \cup (IF item.id = NoId THEN {} ELSE {"id"}) |->
        IF n = "property" THEN item.property ELSE item.id]

\* the children of the metadata element that make_opf_metadata writes: for
\* each item its element, followed by one meta element per refinement, with
\* the attributes of MetadataRefinement::attributes (the text of the refines
\* attribute is the sequence of its parts)
make_opf_metadata(metadata) ==
    LET RECURSIVE Concat(_)
        Concat(seqs) == IF seqs = <<>> THEN <<>> ELSE Head(seqs) \o Concat(Tail(seqs))
        refinement_attributes(refinement) ==
            [n \in {"refines", "property"} |->
                IF n = "refines" THEN <<refinement.refines>> ELSE refinement.property]
    IN  Concat([i \in 1..Len(metadata) |->
          LET item == metadata[i]
              dc == item.property \in DcElements
          IN  <<Element(IF dc THEN "dc" ELSE "opf", IF dc THEN item.property ELSE "meta",
                        metadata_attributes(item), item.value)>>
              \o [j \in 1..Len(item.refined) |->
                    Element("opf", "meta", refinement_attributes(item.refined[j]),
                            item.refined[j].value)]])

\* ManifestItem::attributes; "media_type" stands for the attribute media-type
manifest_attributes(id, item) ==
    [n \in {"id", "href", "media_type"}
             \cup (IF item.properties = NoProperties THEN {} ELSE {"properties"})
             \cup (IF item.fallback = NoId THEN {} ELSE {"fallback"}) |->
        CASE n = "id" -> id
          [] n = "href" -> item.path
          [] n = "media_type" -> item.mime
          [] n = "properties" -> item.properties
          [] n = "fallback" -> item.fallback]

\* make_opf_manifest: one item element per entry, in the order of the map
make_opf_manifest(manifest, order) ==
    [i \in 1..Len(order) |->
        Element("opf", "item", manifest_attributes(order[i], manifest[order[i]]), <<>>)]

\* make_opf_spine: one itemref element per spine item, with the attributes
\* of SpineItem::attributes
make_opf_spine(items) ==
    [i \in 1..Len(items) |->
        Element("opf", "itemref",
                [idref |-> items[i].idref,
                 linear |-> IF items[i].linear THEN "yes" ELSE "no"], <<>>)]

ContainerName == <<"META-INF", "/", "container.xml">>
EncryptionName == <<"META-INF", "/", "encryption.xml">>

\* the archive make has written, as from_reader will see it: every entry
\* with its method, the files by name, and the three documents it parses.
\* make_container_xml writes one rootfile element per rootfile ("full_path"
\* stands for the attribute full-path); make_opf_file writes the package
\* element ("unique_identifier" stands for unique-identifier);
\* make_navigation_document writes a nav
\* element of type toc with an ordered list made from the catalog, and a
\* heading when the catalog title is not empty (it is empty in the model)
Written(b, order) ==
    [is_zip |-> TRUE,
     methods |-> {entry.method : entry \in pack(b.ws).rest} \cup {pack(b.ws).first.method},
     files |-> {StripPrefix(p, TempDir) : p \in b.ws.files},
     container |->
        Found(NoAttrs,
              [i \in 1..Len(b.rootfiles) |->
                  Element("container", "rootfile", [full_path |-> b.rootfiles[i]], <<>>)]),
     package |->
        [attrs |-> [version |-> "3.0", unique_identifier |-> "pub-id"],
         metadata |-> Found(NoAttrs, make_opf_metadata(b.metadata)),
         manifest |-> Found(NoAttrs, make_opf_manifest(b.manifest, order)),
         spine |-> Found(NoAttrs, make_opf_spine(b.spine))],
     navigation |->
        [toc |-> TRUE, list |-> TRUE, heading |-> FALSE, title |-> <<>>,
         catalog |-> b.catalog, doc_title |-> FALSE, nav_map |-> FALSE],
     encryption |-> "none"]

----------------------------------------------------------------------------
(* Reader: opening a publication *)

\* the document from_reader builds; the fields are filled one parse step
\* after the other
EmptyDoc(rootfile, version) ==
    [kind |-> "doc", package_path |-> rootfile, base_path |-> base_path(rootfile),
     version |-> version, unique_identifier |-> <<>>, metadata |-> <<>>,
     manifest |-> <<>>, spine |-> <<>>, encryption |-> "none", catalog |-> <<>>,
     catalog_title |-> <<>>]

\* EpubDoc::parse_container
parse_container(container) ==
    IF container.children = <<>> THEN OpenErr("NonCanonicalFile", "rootfile")
    ELSE IF ~has_attr(container.children[1], "full_path")
    THEN OpenErr("MissingRequiredAttribute", "rootfile")
    ELSE Ok(container.children[1].attrs.full_path)

\* what determine_epub_version looks at in the package element
PackageElement(package) ==
    [version |-> IF "version" \in DOMAIN package.attrs THEN package.attrs.version
                 ELSE Absent,
     spine |-> IF ~package.spine.present THEN Absent
               ELSE IF "toc" \in DOMAIN package.spine.attrs THEN "spine toc"
               ELSE "spine",
     manifest |-> IF ~package.manifest.present THEN [present |-> FALSE, ids |-> {}]
                  ELSE [present |-> TRUE,
                        ids |-> {package.manifest.children[i].attrs.id :
                                   i \in {j \in 1..Len(package.manifest.children) :
                                            has_attr(package.manifest.children[j], "id")}}]]

\* EpubDoc::parse_dc_metadata: in a legacy package every attribute becomes a
\* refinement of the element's id, and the id is unwrapped for each of them;
\* names is the order in which the map yields the attributes: one of the
\* orders, always the same
parse_dc_metadata(version, element) ==
    LET id == IF has_attr(element, "id") THEN element.attrs.id ELSE NoId
        names == CHOOSE order \in Orders(DOMAIN element.attrs) : TRUE
        refined == IF version = "2.0"
                   THEN [i \in 1..Len(names) |->
                           [refines |-> id, property |-> names[i],
                            value |-> element.attrs[names[i]]]]
                   ELSE <<>>
    IN  IF version = "2.0" /\ names # <<>> /\ id = NoId THEN Panic
        ELSE [kind |-> "item",
              item |-> [property |-> element.name, id |-> id,
                        value |-> normalize_whitespace(element.text), refined |-> refined]]

\* EpubDoc::parse_meta_element
parse_meta_element(version, element) ==
    IF version = "2.0"
    THEN IF ~has_attr(element, "name") THEN OpenErr("NonCanonicalFile", "meta")
         ELSE IF ~has_attr(element, "content")
         THEN OpenErr("MissingRequiredAttribute", "meta")
         ELSE [kind |-> "item",
               item |-> [property |-> element.attrs.name, id |-> NoId,
                         value |-> normalize_whitespace(element.attrs.content),
                         refined |-> <<>>]]
    ELSE IF ~has_attr(element, "property") THEN OpenErr("MissingRequiredAttribute", "meta")
    ELSE IF has_attr(element, "refines")
    THEN LET refines == element.attrs.refines
             id == IF refines # <<>> /\ Head(refines) = "#" THEN Tail(refines)
                   ELSE refines
         IN  [kind |-> "refinement",
              refinement |-> [refines |-> IF Len(id) = 1 THEN id[1] ELSE NoId,
                              property |-> element.attrs.property,
                              value |-> normalize_whitespace(element.text)]]
    ELSE [kind |-> "item",
          item |-> [property |-> element.attrs.property,
                    id |-> IF has_attr(element, "id") THEN element.attrs.id ELSE NoId,
                    value |-> normalize_whitespace(element.text), refined |-> <<>>]]

\* EpubDoc::parse_opf_metadata, with parse_link_element: a link is checked
\* and not kept in the model
parse_opf_metadata(version, element) ==
    IF element.name = "meta" THEN parse_meta_element(version, element)
    ELSE IF /\ element.name = "link"
            /\ ~has_attr(element, "href") \/ ~has_attr(element, "rel")
    THEN OpenErr("MissingRequiredAttribute", "link")
    ELSE [kind |-> "skip"]

RECURSIVE parse_metadata(_, _, _, _)
\* EpubDoc::parse_metadata, children being the children of the metadata
\* element that are still to be read; when all are read, refinements.remove(id)
\* hands the refinements of an id to the first item that carries it
parse_metadata(doc, children, metadata, refinements) ==
    IF children = <<>>
    THEN LET Of(id) == SelectSeq(refinements, LAMBDA refinement : refinement.refines = id)
         IN  [doc EXCEPT !.metadata =
                [i \in 1..Len(metadata) |->
                    LET item == metadata[i]
                        first == \A j \in 1..(i - 1) : metadata[j].id # item.id
                    IN  IF item.id # NoId /\ first /\ Of(item.id) # <<>>
                        THEN [item EXCEPT !.refined = Of(item.id)]
                        ELSE item]]
    ELSE LET element == Head(children)
             parsed == IF element.ns = "dc" THEN parse_dc_metadata(doc.version, element)
                       ELSE IF element.ns = "opf"
                       THEN parse_opf_metadata(doc.version, element)
                       ELSE [kind |-> "skip"]
         IN  IF parsed.kind \in {"err", "panic"} THEN parsed
             ELSE parse_metadata(doc, Tail(children),
                    IF parsed.kind = "item" THEN Append(metadata, parsed.item)
                    ELSE metadata,
                    IF parsed.kind = "refinement" THEN Append(refinements, parsed.refinement)
                    ELSE refinements)

RECURSIVE parse_manifest(_, _, _)
\* EpubDoc::parse_manifest, children being the item elements that are still
\* to be read: a later item replaces an earlier one with the same id;
\* validate_fallback_chains only logs
parse_manifest(doc, children, resources) ==
    IF children = <<>> THEN [doc EXCEPT !.manifest = resources]
    ELSE LET element == Head(children)
         IN  IF \E n \in {"id", "href", "media_type"} : ~has_attr(element, n)
             THEN OpenErr("MissingRequiredAttribute", "item")
             ELSE LET path == reader_normalize_manifest_path(doc.package_path,
                                                             element.attrs.href)
                  IN  IF path.kind = "err" THEN OpenErr(path.error, "item")
                      ELSE parse_manifest(doc, Tail(children),
                             Insert(resources, element.attrs.id,
                                    [fallback |-> IF has_attr(element, "fallback")
                                                  THEN element.attrs.fallback ELSE NoId,
                                     mime |-> element.attrs.media_type,
                                     properties |-> IF has_attr(element, "properties")
                                                    THEN element.attrs.properties
                                                    ELSE NoProperties,
                                     path |-> path.path]))

\* every value but "no" leaves the entry linear
parse_spine_unless_no(doc, spine_element) ==
    IF \E i \in 1..Len(spine_element.children) : ~has_attr(spine_element.children[i], "idref")
    THEN OpenErr("MissingRequiredAttribute", "itemref")
    ELSE [doc EXCEPT !.spine =
            [i \in 1..Len(spine_element.children) |->
                LET element == spine_element.children[i]
                IN  [idref |-> element.attrs.idref,
                     linear |-> IF has_attr(element, "linear")
                                THEN element.attrs.linear # "no" ELSE TRUE]]]

\* EpubDoc::parse_spine
parse_spine(doc, spine_element) ==
    IF \E i \in 1..Len(spine_element.children) : ~has_attr(spine_element.children[i], "idref")
    THEN OpenErr("MissingRequiredAttribute", "itemref")
    ELSE [doc EXCEPT !.spine =
            [i \in 1..Len(spine_element.children) |->
                LET element == spine_element.children[i]
                IN  [idref |-> element.attrs.idref,
                     linear |-> IF has_attr(element, "linear")
                                THEN element.attrs.linear = "yes" ELSE TRUE]]]

\* EpubDoc::parse_encryption: encryption says what META-INF/encryption.xml
\* holds: no EncryptedData, or one that lacks its EncryptionMethod
parse_encryption(doc, pub) ==
    IF EncryptionName \notin pub.files THEN doc
    ELSE IF pub.encryption = "no method" THEN OpenErr("NonCanonicalFile", "EncryptionMethod")
    ELSE doc

\* EpubDoc::parse_catalog
parse_catalog(doc, pub) ==
    IF doc.version = "2.0"
    THEN IF ~pub.package.spine.present THEN OpenErr("NonCanonicalFile", "spine")
         ELSE IF ~has_attr(pub.package.spine, "toc")
         THEN OpenErr("MissingRequiredAttribute", "spine")
         ELSE IF pub.package.spine.attrs.toc \notin DOMAIN doc.manifest
         THEN OpenErr("ResourceIdNotExist", "")
         ELSE IF doc.manifest[pub.package.spine.attrs.toc].path \notin pub.files
         THEN OpenErr("ArchiveError", "")
         ELSE IF ~pub.navigation.nav_map THEN OpenErr("NonCanonicalFile", "navMap")
         ELSE [doc EXCEPT !.catalog = pub.navigation.catalog,
                          !.catalog_title = IF pub.navigation.doc_title
                                            THEN pub.navigation.title ELSE @]
    ELSE LET navs == {id \in DOMAIN doc.manifest : doc.manifest[id].properties = <<"nav">>}
             \* the first such item the map yields
             nav == CHOOSE id \in navs : TRUE
         IN  IF navs = {} THEN OpenErr("NonCanonicalEpub", "Navigation Document")
             ELSE IF doc.manifest[nav].path \notin pub.files THEN OpenErr("ArchiveError", "")
             ELSE IF ~pub.navigation.toc THEN OpenErr("NonCanonicalFile", "nav")
             ELSE IF ~pub.navigation.list THEN OpenErr("NonCanonicalFile", "ol")
             ELSE [doc EXCEPT !.catalog = pub.navigation.catalog,
                              !.catalog_title = IF pub.navigation.heading
                                                THEN pub.navigation.title ELSE @]

\* EpubDoc::from_reader: the parent of the package path is expected, and the
\* first metadata, manifest and spine elements are unwrapped
from_reader(pub) ==
    LET unique_identifier(doc) ==
            LET identifiers ==
                    SelectSeq(doc.metadata,
                              LAMBDA item :
                                /\ item.property = "identifier"
                                /\ has_attr(pub.package, "unique_identifier")
                                     => item.id = pub.package.attrs.unique_identifier)
            IN  IF identifiers = <<>> THEN OpenErr("NonCanonicalFile", "dc:identifier")
                ELSE [doc EXCEPT !.unique_identifier = identifiers[1].value]
    IN
    IF ~pub.is_zip THEN OpenErr("ArchiveError", "")
    ELSE IF \E method \in pub.methods : method \notin {"Stored", "Deflated"}
    THEN OpenErr("UnusableCompressionMethod", "")
    ELSE IF ContainerName \notin pub.files THEN OpenErr("ArchiveError", "")
    ELSE LET container == parse_container(pub.container)
         IN  IF container.kind = "err" THEN container
             ELSE IF ~HasParent(container.path) THEN Panic
             ELSE IF container.path \notin pub.files THEN OpenErr("ArchiveError", "")
             ELSE LET version == determine_epub_version(PackageElement(pub.package))
                  IN  IF version.kind = "err" THEN version
                      ELSE IF \/ ~pub.package.metadata.present
                              \/ ~pub.package.manifest.present
                              \/ ~pub.package.spine.present
                      THEN Panic
                      ELSE LET doc1 == parse_metadata(EmptyDoc(container.path, version.version),
                                                      pub.package.metadata.children,
                                                      <<>>, <<>>)
                           IN  IF doc1.kind # "doc" THEN doc1
                           ELSE LET doc2 == parse_manifest(doc1, pub.package.manifest.children,
                                                           <<>>)
                           IN  IF doc2.kind # "doc" THEN doc2
                           ELSE LET doc3 == parse_spine(doc2, pub.package.spine)
                           IN  IF doc3.kind # "doc" THEN doc3
                           ELSE LET doc4 == parse_encryption(doc3, pub)
                           IN  IF doc4.kind # "doc" THEN doc4
                           ELSE LET doc5 == parse_catalog(doc4, pub)
                           IN  IF doc5.kind # "doc" THEN doc5
                           ELSE unique_identifier(doc5)

\* EpubDoc::get_metadata_value: the values of the items with the property
\* key, in document order
get_metadata_value(metadata, key) ==
    LET found == SelectSeq(metadata, LAMBDA item : item.property = key)
    IN  [i \in 1..Len(found) |-> found[i].value]

----------------------------------------------------------------------------
(* Builder: the builder made from a document *)

\* the characters of the property tokens of the model
Chars(token) ==
    CASE token = "nav" -> <<"n", "a", "v">>
      [] token = "xnav" -> <<"x", "n", "a", "v">>
      [] OTHER -> <<token>>

\* str::contains
str_contains(text, pattern) ==
    \E i \in 1..(Len(text) - Len(pattern) + 1) :
        SubSeq(text, i, i + Len(pattern) - 1) = pattern

RECURSIVE copy_manifest(_, _, _, _)
\* the loop of EpubBuilder::from over the manifest of the document, the map
\* yielding the keys in the given order; the text of a properties attribute
\* is its tokens, separated by blanks
copy_manifest(b, doc, pub, keys) ==
    IF keys = <<>>
    THEN [kind |-> "ok", b |-> b, spine |-> doc.spine, catalog_title |-> doc.catalog_title]
    ELSE LET id == Head(keys)
             item == doc.manifest[id]
             properties == JoinWith([i \in 1..Len(item.properties) |->
                                        Chars(item.properties[i])], <<" ">>)
             moved == [item EXCEPT !.path = PathJoin(Slash, @)]
             target == normalize(b, moved)
             made == [b EXCEPT !.ws.dirs =
                        IF HasParent(target.path) THEN @ \cup DirsTo(Parent(target.path))
                        ELSE @]
         IN  IF str_contains(properties, Chars("nav"))
             THEN copy_manifest(b, doc, pub, Tail(keys))
             ELSE IF item.path \notin pub.files
             THEN [kind |-> "err", error |-> "ResourceNotFound"]
             ELSE IF target.kind = "err" THEN [kind |-> "err", error |-> target.error]
             ELSE IF target.path \in made.ws.dirs THEN [kind |-> "err", error |-> "Io"]
             ELSE copy_manifest([made EXCEPT !.ws.files = @ \cup {target.path},
                                             !.manifest = Insert(@, id, moved)],
                                doc, pub, Tail(keys))

\* the catalog of the document is not carried over
from_without_catalog(doc, pub, order) ==
    LET added == add_rootfile(NewBuilder, doc.package_path)
    IN  IF added.ret # Done THEN [kind |-> "err", error |-> added.ret.error]
        ELSE copy_manifest([added.b EXCEPT !.metadata = doc.metadata,
                                           !.spine = doc.spine],
                           doc, pub, order)

\* EpubBuilder::from
from(doc, pub, order) ==
    LET added == add_rootfile(NewBuilder, doc.package_path)
    IN  IF added.ret # Done THEN [kind |-> "err", error |-> added.ret.error]
        ELSE copy_manifest([added.b EXCEPT !.metadata = doc.metadata,
                                           !.spine = doc.spine,
                                           !.catalog = doc.catalog],
                           doc, pub, order)

\* EpubBuilder::from on the document that was opened
From ==
    /\ component \in {"open", "reopen"}
    /\ opened.kind = "doc"
    /\ rebuilt = None
    /\ \E order \in Orders(DOMAIN opened.manifest) :
          rebuilt' = from(opened, publication, order)
    /\ UNCHANGED <<publication, opened>>
    /\ UNCHANGED <<component, font_vars, path_vars, fallback_vars, builder_vars,
                   spine_vars, version_vars>>

----------------------------------------------------------------------------
(* Reader: the publications that are opened *)

Dc(name, attrs, text) == Element("dc", name, attrs, text)

\* a title with a run of two blanks in it
SpacedValue == <<"v", " ", " ", "w">>

ItemElement(id, path, properties) ==
    Element("opf", "item",
            manifest_attributes(id, [path |-> path, mime |-> "image/png",
                                     properties |-> properties, fallback |-> NoId]),
            <<>>)

\* package documents: the package element with or without its version and
\* unique-identifier attributes, and what is found for its metadata,
\* manifest and spine elements
Packages ==
    LET required == <<Dc("identifier", [id |-> "pub-id"], PlainValue),
                      Dc("title", NoAttrs, SpacedValue),
                      Dc("language", NoAttrs, PlainValue)>>
        items == <<ItemElement("a", <<"a">>, NoProperties),
                   ItemElement("nav", <<"nav.xhtml">>, <<"nav">>),
                   ItemElement("ncx", <<"toc.ncx">>, NoProperties)>>
        itemref == Element("opf", "itemref", [idref |-> "a"], <<>>)
    IN  [attrs : {[n \in names |-> IF n = "version" THEN version ELSE "pub-id"] :
                     names \in SUBSET {"version", "unique_identifier"},
                     version \in {"2.0", "3.0"}},
         metadata :
            {NoElement,
             Found(NoAttrs, required),
             Found(NoAttrs, required \o <<Dc("creator", [role |-> "aut"], PlainValue)>>),
             Found(NoAttrs, required
                              \o <<Dc("creator", [id |-> "c", role |-> "aut"], PlainValue)>>),
             Found(NoAttrs, required \o <<Element("opf", "meta", NoAttrs, PlainValue)>>),
             Found(NoAttrs, <<Dc("identifier", [id |-> "uid"], PlainValue),
                              required[2], required[3]>>),
             Found(NoAttrs, <<Dc("title", NoAttrs, PlainValue)>>)},
         manifest :
            {NoElement,
             Found(NoAttrs, items),
             Found(NoAttrs, items \o <<ItemElement("x", <<"x">>, <<"xnav">>)>>),
             Found(NoAttrs, <<items[1],
                              ItemElement("nav", <<"nav.xhtml">>, <<"nav", "scripted">>),
                              items[3]>>),
             Found(NoAttrs, items \o <<Element("opf", "item", [id |-> "x"], <<>>)>>),
             Found(NoAttrs, items
                              \o <<ItemElement("x", <<".", ".", "/", ".", ".", "/", "x">>,
                                               NoProperties)>>),
             Found(NoAttrs, <<ItemElement("a", <<"a">>, NoProperties)>>)},
         spine :
            {NoElement,
             Found(NoAttrs, <<itemref>>),
             Found([toc |-> "ncx"], <<itemref>>),
             Found([toc |-> "ncx"],
                   <<itemref>> \o [i \in 1..3 |->
                                    Element("opf", "itemref",
                                            [idref |-> "a",
                                             linear |-> <<"yes", "no", "true">>[i]],
                                            <<>>)]),
             Found(NoAttrs, <<Element("opf", "itemref", NoAttrs, <<>>)>>)}]

\* a publication that opens when its package document is in order
Usual(package) ==
    [is_zip |-> TRUE, methods |-> {"Stored", "Deflated"},
     files |-> {ContainerName, PackageAt(0), <<"a">>, <<"x">>, <<"nav.xhtml">>,
                <<"toc.ncx">>},
     container |->
        Found(NoAttrs,
              <<Element("container", "rootfile", [full_path |-> PackageAt(0)], <<>>)>>),
     package |-> package,
     navigation |-> [toc |-> TRUE, list |-> TRUE, heading |-> TRUE, title |-> <<"t">>,
                     catalog |-> <<"n">>, doc_title |-> TRUE, nav_map |-> TRUE],
     encryption |-> "none"]

\* a publication with something wrong outside its package document
Defective(pub, defect) ==
    LET Rootfiles(attrs) ==
            Found(NoAttrs, <<Element("container", "rootfile", attrs, <<>>)>>)
    IN  CASE defect = "not a zip" -> [pub EXCEPT !.is_zip = FALSE]
          [] defect = "bzip2" -> [pub EXCEPT !.methods = @ \cup {"Bzip2"}]
          [] defect = "no container" -> [pub EXCEPT !.files = @ \ {ContainerName}]
          [] defect = "no rootfile" -> [pub EXCEPT !.container = Found(NoAttrs, <<>>)]
          [] defect = "no full-path" -> [pub EXCEPT !.container = Rootfiles(NoAttrs)]
          [] defect = "empty full-path" ->
                [pub EXCEPT !.container = Rootfiles([full_path |-> <<>>])]
          [] defect = "no package" -> [pub EXCEPT !.files = @ \ {PackageAt(0)}]
          [] defect = "no resource" -> [pub EXCEPT !.files = @ \ {<<"a">>}]
          [] defect = "no navigation" ->
                [pub EXCEPT !.files = @ \ {<<"nav.xhtml">>, <<"toc.ncx">>}]
          [] defect = "no toc" -> [pub EXCEPT !.navigation.toc = FALSE]
          [] defect = "no list" -> [pub EXCEPT !.navigation.list = FALSE]
          [] defect = "no navMap" -> [pub EXCEPT !.navigation.nav_map = FALSE]
          [] defect = "empty toc" -> [pub EXCEPT !.navigation.catalog = <<>>]
          [] defect = "encryption" ->
                [pub EXCEPT !.files = @ \cup {EncryptionName}, !.encryption = "empty"]
          [] defect = "no method" ->
                [pub EXCEPT !.files = @ \cup {EncryptionName}, !.encryption = "no method"]
          [] OTHER -> pub

Publications ==
    {Defective(Usual(package), defect) :
        package \in Packages,
        defect \in {"none", "not a zip", "bzip2", "no container", "no rootfile",
                    "no full-path", "empty full-path", "no package", "no resource",
                    "no navigation", "no toc", "no list", "no navMap", "empty toc",
                    "encryption",
                    "no method"}}

\* EpubDoc::new on the archive
Open ==
    /\ component = "open"
    /\ opened = None
    /\ opened' = from_reader(publication)
    /\ UNCHANGED <<publication, rebuilt>>
    /\ UNCHANGED <<component, font_vars, path_vars, fallback_vars, builder_vars,
                   spine_vars, version_vars>>

\* EpubBuilder::make on the builder that EpubBuilder::from returned
MakeRebuilt ==
    /\ component = "open"
    /\ rebuilt # None /\ rebuilt.kind = "ok"
    /\ make_result = None
    /\ \E order \in Orders(DOMAIN WithNav(rebuilt.b.manifest)), removal_fails \in BOOLEAN :
         LET made == make(rebuilt.b, order)
             dropped == drop(made.b.ws, removal_fails)
         IN  /\ make_result' = made.result
             /\ b_manifest' = made.b.manifest
             /\ b_metadata' = made.b.metadata
             /\ visit_log' = made.b.log
             /\ output_written' = (made.result = MakeOk)
             /\ archive' = IF made.result = MakeOk THEN pack(made.b.ws) ELSE archive
             /\ workspace' = dropped.ws
             /\ drop_warned' = dropped.warned
             /\ b_call' = [op |-> "make", ret |-> made.result]
    /\ b_rootfiles' = rebuilt.b.rootfiles
    /\ b_catalog' = rebuilt.b.catalog
    /\ b_spine' = rebuilt.b.spine
    /\ b_alive' = FALSE
    /\ UNCHANGED <<component, font_vars, open_vars, path_vars, fallback_vars, spine_vars, version_vars>>

OpenInit ==
    /\ component = "open"
    /\ Idle({"path", "fallback", "builder", "spine", "version", "font"})
    /\ publication \in Publications
    /\ opened = None /\ rebuilt = None

OpenSpec == OpenInit /\ [][Open \/ From \/ MakeRebuilt]_vars

----------------------------------------------------------------------------
(* Builder: build, and the way back *)

\* EpubBuilder::build: make, and EpubDoc::new on what make has written
Build ==
    /\ component \in {"reopen", "staging"}
    /\ b_alive
    /\ make_result = None
    /\ \E order \in Orders(DOMAIN WithNav(b_manifest)), removal_fails \in BOOLEAN :
         LET made == make(Builder, order)
             dropped == drop(made.b.ws, removal_fails)
             written == Written(made.b, order)
         IN  /\ make_result' = made.result
             /\ b_manifest' = made.b.manifest
             /\ b_metadata' = made.b.metadata
             /\ visit_log' = made.b.log
             /\ output_written' = (made.result = MakeOk)
             /\ archive' = IF made.result = MakeOk THEN pack(made.b.ws) ELSE archive
             /\ workspace' = dropped.ws
             /\ drop_warned' = dropped.warned
             /\ publication' = IF made.result = MakeOk THEN written ELSE publication
             /\ opened' = IF made.result = MakeOk THEN from_reader(written) ELSE opened
             /\ b_call' = [op |-> "build",
                           ret |-> IF made.result = MakeOk THEN Done ELSE made.result]
    /\ b_alive' = FALSE
    /\ UNCHANGED <<b_rootfiles, b_catalog, b_spine, rebuilt>>
    /\ UNCHANGED <<component, font_vars, path_vars, fallback_vars, spine_vars, version_vars>>

\* the builders that are built: resources whose properties are none, nav or
\* a token that contains the letters nav, and a title with or without a run
\* of blanks
ReopenInit ==
    /\ component = "reopen"
    /\ Idle({"path", "fallback", "spine", "version", "font", "open"})
    /\ \E rootfiles \in {<<PackageAt(0)>>, <<PackageAt(1)>>},
          pairs \in UNION {[1..n -> StagedIds
                                     \X {StagedItem(path, "image/png", properties) :
                                           path \in {<<"a">>, <<"b", "/", "a">>},
                                           properties \in {NoProperties, <<"nav">>,
                                                           <<"xnav">>}}] :
                             n \in 0..MaxStaged},
          title \in {PlainValue, SpacedValue},
          more \in {<<>>, <<MetadataItem("cover", NoId)>>,
                    <<MetadataItem("identifier", NoId)>>} :
            Holds(Configured(rootfiles, pairs,
                             <<[MetadataItem("title", NoId) EXCEPT !.value = title],
                               MetadataItem("language", NoId),
                               MetadataItem("identifier", "pub-id")>> \o more,
                             <<"n">>, FALSE))

ReopenSpec == ReopenInit /\ [][Build \/ From]_vars

\* a builder that lacks nothing make asks for, before the caller fills its
\* manifest and its spine
StagingInit ==
    /\ component = "staging"
    /\ Idle({"path", "fallback", "spine", "version", "font", "open"})
    /\ Holds(Configured(<<PackageAt(0)>>, <<>>, CompleteMetadata, <<"n">>, FALSE))

StagingSpec ==
    StagingInit
      /\ [][\/ AddSpine \/ RemoveLastSpine \/ TakeLastSpine \/ ClearSpines
            \/ AddManifest \/ RemoveManifest \/ ClearManifests
            \/ Build]_vars

----------------------------------------------------------------------------
\* every component
Init ==
    \/ PathInit \/ FallbackInit \/ SpineInit \/ VersionInit \/ FontInit \/ BuilderInit
    \/ MakeInit \/ OpenInit \/ ReopenInit \/ StagingInit

Next ==
    \/ ReaderNormalize \/ BuilderNormalize
    \/ ParseManifest \/ GetManifestItemWithFallback
    \/ NavigateBySpineIndex \/ SpinePrev \/ SpineNext \/ SpineCurrent
    \/ DetermineEpubVersion
    \/ Obfuscate \/ Deobfuscate
    \/ AddRootfile \/ RemoveLastRootfile \/ ClearRootfiles
    \/ AddMetadata \/ AddCatalogItem
    \/ AddSpine \/ RemoveLastSpine \/ TakeLastSpine \/ ClearSpines
    \/ AddManifest \/ RemoveManifest \/ TakeManifest \/ ClearManifests \/ ClearAll
    \/ Make \/ Discard \/ Build
    \/ Open \/ From \/ MakeRebuilt

Spec == Init /\ [][Next]_vars

----------------------------------------------------------------------------
(* Containment of normalized paths *)

\* walking the components of a root-relative path: a name goes one level
\* down, ".." one level up; FALSE as soon as ".." is met at the root
RECURSIVE StaysInside(_, _)
StaysInside(cs, depth) ==
    IF cs = <<>> THEN TRUE
    ELSE IF Head(cs) = DotDot THEN depth > 0 /\ StaysInside(Tail(cs), depth - 1)
    ELSE IF Head(cs) \in {Dot, Slash} THEN StaysInside(Tail(cs), depth)
    ELSE StaysInside(Tail(cs), depth + 1)

\* the part of a returned path below the container root
BelowRoot(root, p) ==
    IF CanStripPrefix(p, root) THEN StripPrefix(p, root) ELSE p

Contained(root, result) ==
    result.kind = "ok" => StaysInside(Components(BelowRoot(root, result.path)), 0)

\* C1: whenever the reader's or the builder's normalizer returns a path, the
\* path resolved component by component stays inside the container root
C1_ContainmentInvariant ==
    /\ Contained(EpubPath, reader_result)
    /\ Contained(TempDir, builder_result)

\* the directory of the package document, as components below the root
BaseComponents == Components(Parent(package_path))

\* the base directory with its last k components removed, joined with rest
UpAndJoin(k, rest) ==
    LET kept == SubSeq(BaseComponents, 1, Len(BaseComponents) - k)
    IN  IF kept = <<>> THEN rest ELSE AsPath(kept) \o Slash \o rest

\* the number k of leading "../" of s: s starts with k of them and not k+1
RECURSIVE Ups(_)
Ups(k) == IF k = 0 THEN <<>> ELSE DotDotSlash \o Ups(k - 1)

LeadingUps(s) ==
    CHOOSE k \in 0..Len(s) : StrStartsWith(s, Ups(k)) /\ ~StrStartsWith(s, Ups(k + 1))

ExpectedUp(result) ==
    LET k == LeadingUps(href)
        d == Len(BaseComponents)
    IN  (result # None /\ k >= 1) =>
            IF k > d THEN result = Err("RealtiveLinkLeakage", href)
            ELSE result = Ok(UpAndJoin(k, Drop(href, 3 * k)))

\* C2: a reference with k >= 1 leading "../" from a base d levels deep is
\* rejected with the leakage error naming the reference exactly when k > d,
\* and otherwise yields the base minus its last k components joined with the
\* rest of the reference
C2_LeadingUpsResolved ==
    /\ ExpectedUp(reader_result)
    /\ ExpectedUp(builder_result)

\* "../a" from a base two levels deep gives "a/a", "../../a" from a base one
\* level deep is rejected
C2_Witness ==
    \/ /\ href = <<".", ".", "/", "a">>
       /\ package_path = PackageAt(2)
       /\ reader_result = Ok(<<"a", "/", "a">>)
       /\ builder_result = Ok(<<"a", "/", "a">>)
    \/ /\ href = <<".", ".", "/", ".", ".", "/", "a">>
       /\ package_path = PackageAt(1)
       /\ reader_result.kind = "err"
       /\ builder_result.kind = "err"

----------------------------------------------------------------------------
(* Fallback chains, stated without a visited list *)

AtEnd == "#end"
AtMissing == "#missing"

\* the n-th id after id along the fallback links; once an item without
\* fallback or an undeclared id is met, the walk stays there
RECURSIVE Nth(_, _, _)
Nth(m, id, n) ==
    IF n = 0 THEN id
    ELSE LET p == Nth(m, id, n - 1)
         IN  IF p \in {AtEnd, AtMissing} THEN p
             ELSE IF m[p].fallback = NoId THEN AtEnd
             ELSE IF m[p].fallback \notin DOMAIN m THEN AtMissing
             ELSE m[p].fallback

\* a walk over declared ids that is longer than the manifest repeats an id
Outcome(m, id) ==
    LET p == Nth(m, id, Cardinality(DOMAIN m))
    IN  IF p = AtEnd THEN "valid" ELSE IF p = AtMissing THEN "missing" ELSE "circular"

Agrees(m, id, result) ==
    /\ result.ok <=> Outcome(m, id) = "valid"
    /\ ~result.ok => result.error = Outcome(m, id)

WarningsFor(id) == {w \in warnings : w.id = id}

\* C3: validation started at an id succeeds exactly when the fallback links
\* from that id end at an item without fallback, a repeated id gives the
\* circular-reference error and an undeclared fallback id the missing-target
\* error, for the reader's validator and for the builder's
C3_ValidationOutcome ==
    /\ doc_manifest # None =>
         \A id \in DOMAIN doc_manifest.manifest :
            doc_manifest.manifest[id].fallback # NoId =>
               /\ WarningsFor(id) = {} <=> Outcome(doc_manifest.manifest, id) = "valid"
               /\ \A w \in WarningsFor(id) : Agrees(doc_manifest.manifest, id, w.result)
    /\ \A i \in 1..Len(visit_log) :
         Agrees(b_manifest, visit_log[i].id, visit_log[i].result)

\* a chain of three items is accepted by the builder, a cycle is reported by
\* the reader
C3_Witness ==
    \/ /\ visit_log # <<>>
       /\ visit_log[1].result.ok
       /\ LET id == visit_log[1].id
          IN  /\ b_manifest[id].fallback \in DOMAIN b_manifest
              /\ b_manifest[b_manifest[id].fallback].fallback \in DOMAIN b_manifest
    \/ \E w \in warnings : w.result.error = "circular"

----------------------------------------------------------------------------
(* The circular-reference message *)

\* a builder that passes every check of make but the fallback validation
Healthy ==
    /\ b_rootfiles = <<PackageAt(0)>>
    /\ b_metadata = CompleteMetadata
    /\ b_catalog = <<"n">>

IsSubstring(p, t) == \E i \in 1..(Len(t) - Len(p) + 1) : SubSeq(t, i, i + Len(p) - 1) = p

\* the ids met from id on, up to and including the first one met twice
RECURSIVE WalkToRepeat(_, _, _)
WalkToRepeat(m, id, n) ==
    LET walk == [i \in 1..n |-> Nth(m, id, i - 1)]
    IN  IF \E i \in 1..(n - 1) : walk[i] = walk[n] THEN walk
        ELSE WalkToRepeat(m, id, n + 1)

MessageIsWalk ==
    (make_result # None /\ make_result.kind = "err"
        /\ make_result.error = "ManifestCircularReference") =>
       make_result.fallback_chain =
          JoinChain(WalkToRepeat(b_manifest, Last(visit_log).id, 1))

CycleAB ==
    /\ component = "builder"
    /\ DOMAIN b_manifest \ {"nav"} = {"a", "b"}
    /\ b_manifest["a"].fallback = "b"
    /\ b_manifest["b"].fallback = "a"

ABA == <<"a", "-", ">", "b", "-", ">", "a">>
BAB == <<"b", "-", ">", "a", "-", ">", "b">>

\* C4 as stated: the message is the walk joined by "->", and for {a->b, b->a}
\* it contains "a->b->a" in whatever order the entries are visited
C4_AsStated ==
    /\ MessageIsWalk
    /\ (CycleAB /\ Healthy /\ make_result # None) =>
          /\ make_result.kind = "err"
          /\ make_result.error = "ManifestCircularReference"
          /\ IsSubstring(ABA, make_result.fallback_chain)

\* C4 amended: the message is the ids met, from the entry whose validation
\* failed up to and including the repeated id, joined by "->"; for
\* {a->b, b->a} make is rejected with "a->b->a" when a is visited first and
\* with "b->a->b" when b is visited first
C4_MessageFollowsVisitOrder ==
    /\ MessageIsWalk
    /\ (CycleAB /\ Healthy /\ make_result # None) =>
          /\ make_result.kind = "err"
          /\ make_result.error = "ManifestCircularReference"
          /\ ~output_written
          /\ Last(visit_log).id = "a" => make_result.fallback_chain = ABA
          /\ Last(visit_log).id = "b" => make_result.fallback_chain = BAB
          /\ Last(visit_log).id \in {"a", "b"}

C4_Witness ==
    /\ CycleAB /\ Healthy
    /\ make_result # None
    /\ make_result.kind = "err"
    /\ make_result.fallback_chain = BAB

----------------------------------------------------------------------------
(* Lenient reading, strict building *)

\* the items that have a fallback and whose chain is circular or dangling
Offending(m) == {id \in DOMAIN m : m[id].fallback # NoId /\ Outcome(m, id) # "valid"}

ParseStep == doc_manifest = None /\ doc_manifest' # None
MakeStep == make_result = None /\ make_result' # None

ReadIsLenient ==
    ParseStep =>
       /\ doc_manifest' = Doc(opf_manifest)
       /\ {w.id : w \in warnings'} = Offending(opf_manifest)
       /\ Cardinality(warnings') = Cardinality(Offending(opf_manifest))

\* C5 as stated: a bad chain is never fatal to reading, and make on a builder
\* whose manifest contains a bad chain returns an error and writes nothing
C5_AsStated ==
    [][/\ ReadIsLenient
       /\ (MakeStep /\ Offending(b_manifest) # {}) =>
             (make_result'.kind = "err" /\ ~output_written')]_vars

\* C5 amended: a bad chain is never fatal to reading (the document holds the
\* full manifest, with one warning per offending item), and make returns an
\* error and writes nothing whenever the builder's manifest, with the
\* navigation entry that make registers under the id "nav" in place, contains
\* a bad chain
C5_LenientReadStrictBuild ==
    [][/\ ReadIsLenient
       /\ (MakeStep /\ Offending(WithNav(b_manifest)) # {}) =>
             (make_result'.kind = "err" /\ ~output_written')]_vars

C5_Witness ==
    /\ component = "builder"
    /\ Healthy
    /\ make_result # None
    /\ make_result.kind = "err"
    /\ make_result.error = "ManifestNotFound"
    /\ ~output_written

----------------------------------------------------------------------------
(* Fallback-aware fetch *)

\* the positions along the chain from id whose item has an acceptable type
Acceptable(m, id, supported) ==
    {i \in 0..Cardinality(DOMAIN m) :
        /\ Nth(m, id, i) \in DOMAIN m
        /\ m[Nth(m, id, i)].mime \in supported}

Least(S) == CHOOSE i \in S : \A j \in S : i <= j

FirstAcceptable(m, id, supported) == Nth(m, id, Least(Acceptable(m, id, supported)))

Dangling(m, id) == Nth(m, id, Cardinality(DOMAIN m)) = AtMissing

\* the undeclared id the chain from id runs into
DanglingId(m, id) ==
    LET first == Least({i \in 1..Cardinality(DOMAIN m) : Nth(m, id, i) = AtMissing})
    IN  m[Nth(m, id, first - 1)].fallback

IsResourceOf(result, id) ==
    result \in {Fetched(id), FetchErr("ResourceNotFound", id)}

\* C6 as stated: the first entry of the chain with an acceptable type is
\* fetched, and a chain without such an entry gives NoSupportedFileFormat
C6_AsStated ==
    (fetch_result # None /\ fetch_result.id \in DOMAIN doc_manifest.manifest) =>
       LET m == doc_manifest.manifest
           id == fetch_result.id
           supported == fetch_result.supported_format
       IN  IF Acceptable(m, id, supported) # {}
           THEN IsResourceOf(fetch_result.result, FirstAcceptable(m, id, supported))
           ELSE fetch_result.result = NoSupportedFileFormat

\* C6 amended: the first entry of the chain with an acceptable type is
\* fetched; without such an entry the call fails with NoSupportedFileFormat
\* when the chain ends or returns to an id already walked, and with
\* ResourceIdNotExist naming the id when id itself or a fallback id met on
\* the way is not a manifest key
C6_FirstAcceptableOrTypedFailure ==
    fetch_result # None =>
       LET m == doc_manifest.manifest
           id == fetch_result.id
           supported == fetch_result.supported_format
       IN  IF id \notin DOMAIN m
           THEN fetch_result.result = FetchErr("ResourceIdNotExist", id)
           ELSE IF Acceptable(m, id, supported) # {}
           THEN IsResourceOf(fetch_result.result, FirstAcceptable(m, id, supported))
           ELSE IF Dangling(m, id)
           THEN fetch_result.result = FetchErr("ResourceIdNotExist", DanglingId(m, id))
           ELSE fetch_result.result = NoSupportedFileFormat

\* a fallback is fetched in place of the item asked for; a cyclic chain
\* without an acceptable entry is given up
C6_Witness ==
    /\ fetch_result # None
    /\ \/ /\ fetch_result.result.kind = "ok"
          /\ fetch_result.result.id # fetch_result.id
       \/ /\ fetch_result.result = NoSupportedFileFormat
          /\ fetch_result.id \in DOMAIN doc_manifest.manifest
          /\ Outcome(doc_manifest.manifest, fetch_result.id) = "circular"

----------------------------------------------------------------------------
(* The spine cursor *)

Called(op) == spine_call # None /\ spine_call.op = op

Linear(index) == At(spine, index).linear

\* j is the nearest entry after (before) c that is linear
NearestAfter(c, j) ==
    /\ j \in (c + 1)..(Len(spine) - 1)
    /\ Linear(j)
    /\ \A k \in (c + 1)..(j - 1) : ~Linear(k)

NearestBefore(c, j) ==
    /\ j \in 0..(c - 1)
    /\ Linear(j)
    /\ \A k \in (j + 1)..(c - 1) : ~Linear(k)

Stays == spine_call.ret = "none" /\ current_spine_index = spine_call.from

MovedTo(j) == current_spine_index = j /\ spine_call.ret = fetch(spine, j)

NextAsStated ==
    Called("next") =>
       LET c == spine_call.from
       IN  IF c = Len(spine) - 1 \/ (c < Len(spine) /\ ~Linear(c)) THEN Stays
           ELSE IF \E j \in 0..MaxSpine : NearestAfter(c, j)
           THEN \E j \in 0..MaxSpine : NearestAfter(c, j) /\ MovedTo(j)
           ELSE Stays

PrevAsStated ==
    Called("prev") =>
       LET c == spine_call.from
       IN  IF c = 0 \/ (c < Len(spine) /\ ~Linear(c)) THEN Stays
           ELSE IF \E j \in 0..MaxSpine : NearestBefore(c, j)
           THEN \E j \in 0..MaxSpine : NearestBefore(c, j) /\ MovedTo(j)
           ELSE Stays

\* C7 as stated: next (prev) returns empty without moving at the last (first)
\* index or on a non-linear entry, otherwise moves to the nearest following
\* (preceding) linear entry, and returns empty without moving if there is none
C7_AsStated == NextAsStated /\ PrevAsStated

\* C7 on a spine with at least one entry, where the statement holds
C7_OnNonEmptySpine == spine # <<>> => C7_AsStated

\* C8: navigate(index) returns empty without moving when index >= N, and
\* sets the cursor to index for every index < N, whatever the linear flags
C8_NavigateJumps ==
    Called("navigate") =>
       IF spine_call.arg >= Len(spine) THEN Stays
       ELSE current_spine_index = spine_call.arg

\* a jump from a non-linear entry to another non-linear entry
C8_Witness ==
    /\ Called("navigate")
    /\ spine_call.arg < Len(spine)
    /\ spine_call.arg # spine_call.from
    /\ ~Linear(spine_call.arg)
    /\ ~Linear(spine_call.from)
    /\ current_spine_index = spine_call.arg

OnNonLinear ==
    /\ component = "spine"
    /\ current_spine_index < Len(spine)
    /\ ~Linear(current_spine_index)

SequentialLandsOnLinear ==
    (component = "spine" /\ cursor_set_by \in {"next", "prev"}) => Linear(current_spine_index)

\* C9 as stated: the cursor rests on a non-linear entry only if a navigate
\* call put it there
C9_AsStated ==
    /\ OnNonLinear => cursor_set_by = "navigate"
    /\ SequentialLandsOnLinear

\* C9 amended: the cursor rests on a non-linear entry only if a navigate call
\* put it there or it is still at index 0 where open left it; next and prev
\* never move the cursor onto a non-linear entry
C9_NonLinearOnlyByIndexOrOpen ==
    /\ OnNonLinear =>
          \/ cursor_set_by = "navigate"
          \/ cursor_set_by = "open" /\ current_spine_index = 0
    /\ SequentialLandsOnLinear

\* next has been called on a document opened on a non-linear first entry
C9_Witness ==
    /\ OnNonLinear
    /\ cursor_set_by = "open"
    /\ Called("next")

----------------------------------------------------------------------------
(* Version detection *)

Detected == component = "version" /\ version_result # None

Explicit == opf_element.version \in {"2.0", "3.0"}
HasToc == opf_element.spine = "spine toc"
HasNavId == "nav" \in opf_element.manifest.ids

\* C10 as stated: "2.0"/"3.0" decide outright, then a spine with a toc
\* attribute gives legacy, then a manifest item with id "nav" gives modern,
\* and everything else is the unrecognized-version error
C10_AsStated ==
    Detected =>
       version_result =
          IF Explicit THEN VersionOk(opf_element.version)
          ELSE IF HasToc THEN VersionOk("2.0")
          ELSE IF HasNavId THEN VersionOk("3.0")
          ELSE UnrecognizedEpubVersion

\* C10 amended: as stated for a package document that has a spine element
\* and a manifest element; without an explicit "2.0"/"3.0" a missing spine
\* element, and after a spine without toc a missing manifest element, is the
\* non-canonical-file error naming that element
C10_DetectionOrder ==
    Detected =>
       version_result =
          IF Explicit THEN VersionOk(opf_element.version)
          ELSE IF opf_element.spine = Absent THEN VersionErr("NonCanonicalFile", "spine")
          ELSE IF HasToc THEN VersionOk("2.0")
          ELSE IF ~opf_element.manifest.present
          THEN VersionErr("NonCanonicalFile", "manifest")
          ELSE IF HasNavId THEN VersionOk("3.0")
          ELSE UnrecognizedEpubVersion

\* version="0" with a manifest item "nav" is read as modern
C10_Witness ==
    /\ Detected
    /\ opf_element.version = "0"
    /\ opf_element.spine = "spine"
    /\ HasNavId
    /\ version_result = VersionOk("3.0")

----------------------------------------------------------------------------
(* Font obfuscation is its own inverse *)

FontReturned == font_once # None => font_once.kind = "returned"

FontRestored == font_twice # None => font_twice = Returned(font_data)

\* C11: for the IDPF and the Adobe transform, for every key and every
\* buffer, the transform returns, and applying it twice with the same key
\* returns the original buffer.
C11_Involution == FontReturned /\ FontRestored

----------------------------------------------------------------------------
(* Required metadata *)

Has(metadata, property) == \E i \in 1..Len(metadata) : metadata[i].property = property

HasPubId(metadata) ==
    \E i \in 1..Len(metadata) :
        metadata[i].property = "identifier" /\ metadata[i].id = "pub-id"

Lacking(metadata) ==
    ~Has(metadata, "title") \/ ~Has(metadata, "language") \/ ~HasPubId(metadata)

MissingNecessaryMetadata == MakeErr("MissingNecessaryMetadata")

\* C12 as stated: every builder whose metadata lacks a title, a language or
\* an identifier with id "pub-id" fails make with MissingNecessaryMetadata,
\* and a builder that has all three does not fail with that error.
C12_AsStated ==
    [][MakeStep =>
        /\ Lacking(b_metadata) => make_result' = MissingNecessaryMetadata
        /\ ~Lacking(b_metadata) => make_result' # MissingNecessaryMetadata]_vars

\* C12, amended: a builder whose metadata lacks a title, a language or an
\* identifier with id "pub-id" fails make, with MissingRootfile when it has
\* no rootfile, else with NavigationInfoUninitalized when its catalog is
\* empty, else with MissingNecessaryMetadata; a builder that has all three
\* never fails with MissingNecessaryMetadata.
C12_MetadataCompleteness ==
    [][MakeStep =>
        /\ Lacking(b_metadata) =>
             make_result' = IF b_rootfiles = <<>> THEN MakeErr("MissingRootfile")
                            ELSE IF b_catalog = <<>>
                            THEN MakeErr("NavigationInfoUninitalized")
                            ELSE MissingNecessaryMetadata
        /\ ~Lacking(b_metadata) => make_result' # MissingNecessaryMetadata]_vars

\* make has rejected a builder that has a title, a language and an
\* identifier, the identifier not carrying the id "pub-id"
C12_Witness ==
    /\ component = "finalize"
    /\ make_result = MissingNecessaryMetadata
    /\ Has(b_metadata, "title") /\ Has(b_metadata, "language")
    /\ Has(b_metadata, "identifier") /\ ~HasPubId(b_metadata)

----------------------------------------------------------------------------
(* Uniqueness of the navigation entry *)

NavIds(m) == {id \in DOMAIN m : \E i \in 1..Len(m[id].properties) :
                                    m[id].properties[i] = "nav"}

TooManyNavFlags == MakeErr("TooManyNavFlags")

\* the builder passes every check that make runs before the nav check
ReachesNavCheck ==
    b_rootfiles # <<>> /\ b_catalog # <<>> /\ ~Lacking(b_metadata)

\* C13 as stated: a builder whose manifest, as added by the caller, has
\* zero, or two or more, entries with the nav property fails make with the
\* nav-flag error, and one with exactly one such entry passes the check.
C13_AsStated ==
    [][(MakeStep /\ ReachesNavCheck) =>
         (make_result' = TooManyNavFlags <=> Cardinality(NavIds(b_manifest)) # 1)]_vars

\* C13, amended: the nav check counts the entries of the manifest in which
\* make has registered its own navigation entry under the id "nav" (in
\* place of a caller entry with that id): make fails with the nav-flag
\* error exactly when the caller added an entry with the nav property under
\* an id other than "nav"; a caller manifest without any nav entry passes.
C13_NavUniqueness ==
    [][(MakeStep /\ ReachesNavCheck) =>
         (make_result' = TooManyNavFlags <=> NavIds(b_manifest) \ {"nav"} # {})]_vars

\* make has rejected a builder whose only nav entry was added by the caller
\* under the id "a"
C13_Witness ==
    /\ component = "finalize"
    /\ make_result = TooManyNavFlags
    /\ "a" \in NavIds(b_manifest)

----------------------------------------------------------------------------
(* Path normalization needs a rootfile *)

HasReturned(op) == b_call' # None /\ b_call'.op = op

\* add_manifest on a builder without rootfile returns MissingRootfile and
\* changes neither the manifest nor the workspace
GuardedAdd ==
    (HasReturned("add_manifest") /\ b_rootfiles = <<>>) =>
        /\ b_call'.ret = MakeErr("MissingRootfile")
        /\ UNCHANGED <<b_manifest, workspace>>

\* no builder operation crashes
NoCrash == b_call' # None => b_call'.ret # Panic

\* C14: no builder operation runs the path normalization while the rootfile
\* list is empty: add_manifest without rootfile returns MissingRootfile and
\* leaves manifest and workspace unchanged, and after any sequence of
\* rootfile and manifest operations remove_manifest, take_manifest,
\* clear_manifests and clear_all return a typed result instead of crashing.
C14_AsStated == [][GuardedAdd /\ NoCrash]_vars

\* the guard of add_manifest alone holds in every step
C14_GuardedAdd == [][GuardedAdd]_vars

----------------------------------------------------------------------------
(* Layout of the archive *)

\* C15: in every archive that make produces, the 'mimetype' entry is the
\* first entry written and is stored uncompressed, and every other entry is
\* written deflated.
C15_AsStated ==
    archive # None =>
        /\ archive.first.name = <<"mimetype">>
        /\ archive.first.method = "Stored"
        /\ \A entry \in archive.rest : entry.method = "Deflated"

----------------------------------------------------------------------------
(* The staging workspace is a scoped resource *)

Finalizing == component \in {"lifecycle", "finalize"}

\* C16: the staging workspace exists as long as the builder does; once make
\* has returned, with success or with an error, or the builder has been
\* discarded, the workspace directory no longer exists, unless its removal
\* itself failed, and then the failure was logged and make's result is what
\* it would have been: the archive is there exactly when make returned Ok.
C16_WorkspaceReleased ==
    Finalizing =>
        /\ b_alive => (workspace.exists /\ ~drop_warned)
        /\ ~b_alive => (workspace.exists <=> drop_warned)
        /\ archive # None <=> make_result = MakeOk

\* make has failed and the workspace is gone
C16_Witness ==
    /\ component = "finalize"
    /\ ~b_alive
    /\ make_result = MakeErr("MissingNecessaryMetadata")
    /\ ~workspace.exists

----------------------------------------------------------------------------
(* The two path normalizers side by side *)

\* the components, below the container root, of the path a normalizer returned
Denotes(root, result) == Components(BelowRoot(root, result.path))

BothNormalized == reader_result # None /\ builder_result # None

\* both reject, or both accept and denote the same path below the root
Alike ==
    /\ reader_result.kind = builder_result.kind
    /\ reader_result.kind = "ok" =>
          Denotes(EpubPath, reader_result) = Denotes(TempDir, builder_result)

\* C19: for every reference and every base directory, the reader's and the
\* builder's normalizer either both reject the reference or both accept it,
\* and when both accept it they denote the same path relative to the
\* container root; references starting with "./" are included.
C19_AsStated == BothNormalized => Alike

----------------------------------------------------------------------------
(* Opening a publication never crashes *)

Opened == opened # None

\* C20: opening a publication returns a complete document or a typed error
\* and never crashes; a package document without a metadata, manifest or
\* spine element, and a legacy package with a Dublin Core element that has
\* attributes and no id, yield a typed error
C20_AsStated == Opened => opened.kind \in {"doc", "err"}

----------------------------------------------------------------------------
(* Round trip: build and reopen *)

RoundTripKeys == {"title", "identifier", "language"}

Built == Build /\ make_result' = MakeOk

SameEntry(read, added) ==
    /\ read.mime = added.mime
    /\ read.properties = added.properties
    /\ read.fallback = added.fallback

Synthesized(entry) ==
    /\ entry.mime = NavItem.mime
    /\ entry.properties = NavItem.properties
    /\ Components(entry.path) = <<<<"nav.xhtml">>>>

\* the values of the builder's items, as the reader hands them out
AsRead(values) == [i \in 1..Len(values) |-> normalize_whitespace(values[i])]

Recovered(doc, manifest, values, added) ==
    /\ doc.kind = "doc"
    /\ \A key \in RoundTripKeys :
          get_metadata_value(doc.metadata, key) = values[key]
    /\ DOMAIN doc.manifest = added \cup {"nav"}
    /\ Synthesized(doc.manifest["nav"])
    /\ \A id \in added : SameEntry(doc.manifest[id], manifest[id])

----------------------------------------------------------------------------
(* The builder made from a document *)

Copied == From /\ rebuilt'.kind # "none"

\* C18: from(document) yields a builder with the document's metadata,
\* spine, catalog and catalog title and with every manifest entry of the
\* document but the one carrying the nav property; for a document reopened
\* from a built publication the metadata is the original builder's plus one
\* modified entry
C18_AsStated ==
    [][Copied =>
         /\ rebuilt'.kind = "ok"
         /\ rebuilt'.b.metadata = opened.metadata
         /\ rebuilt'.spine = opened.spine
         /\ rebuilt'.b.catalog = opened.catalog
         /\ rebuilt'.catalog_title = opened.catalog_title
         /\ DOMAIN rebuilt'.b.manifest
               = {id \in DOMAIN opened.manifest : ~HasNavProperty(opened.manifest[id])}
         /\ component = "reopen" => rebuilt'.b.metadata = b_metadata]_vars

----------------------------------------------------------------------------
(* The navigation document of a modern package *)

\* the item elements of the package whose properties have the token nav
NavElements(package) ==
    {i \in 1..Len(package.manifest.children) :
        /\ has_attr(package.manifest.children[i], "properties")
        /\ Contains(package.manifest.children[i].attrs.properties, "nav")}

NoNavigationDocument == OpenErr("NonCanonicalEpub", "Navigation Document")

\* C21: opening a modern package fails with the non-canonical-publication
\* error only if no manifest item has nav among its space-separated
\* properties, and the builder made from an opened document leaves out
\* exactly the items that have nav among their properties.
C21_AsStated ==
    /\ (component = "open" /\ opened = NoNavigationDocument)
          => NavElements(publication.package) = {}
    /\ (component = "open" /\ rebuilt # None /\ rebuilt.kind = "ok")
          => DOMAIN rebuilt.b.manifest =
               {id \in DOMAIN opened.manifest : ~HasNavProperty(opened.manifest[id])}

----------------------------------------------------------------------------
(* The spine of a written publication *)

\* the values of the attribute name of the children of an element
AttrValues(element, name) ==
    {element.children[i].attrs[name] :
        i \in {j \in 1..Len(element.children) : has_attr(element.children[j], name)}}

\* C22: in every publication that make writes, every idref of the spine is
\* the id of an item of the manifest.
C22_AsStated ==
    (component = "staging" /\ make_result = MakeOk)
      => AttrValues(publication.package.spine, "idref")
           \subseteq AttrValues(publication.package.manifest, "id")

----------------------------------------------------------------------------
(* The linear flag of a parsed spine *)

\* the itemref elements of the package that was opened
Itemrefs == publication.package.spine.children

ParsedSpine ==
    /\ component = "open" /\ opened # None /\ opened.kind = "doc"
    /\ Len(opened.spine) = Len(Itemrefs)

\* C23 as stated: an entry is linear when the linear attribute is absent,
\* and is not linear only when the value of the attribute is exactly "no".
C23_AsStated ==
    (component = "open" /\ opened # None /\ opened.kind = "doc") =>
        /\ Len(opened.spine) = Len(Itemrefs)
        /\ \A i \in 1..Len(Itemrefs) :
              opened.spine[i].linear =
                  (has_attr(Itemrefs[i], "linear") => Itemrefs[i].attrs.linear # "no")

\* C23: an entry is linear when the linear attribute is absent or has
\* exactly the value "yes"; every other value makes the entry not linear.
C23_LinearOnlyWhenYes ==
    (component = "open" /\ opened # None /\ opened.kind = "doc") =>
        /\ Len(opened.spine) = Len(Itemrefs)
        /\ \A i \in 1..Len(Itemrefs) :
              opened.spine[i].linear =
                  (has_attr(Itemrefs[i], "linear") => Itemrefs[i].attrs.linear = "yes")

\* a document was opened whose spine has an entry without the attribute,
\* one with "yes", one with "no" and one with another value
C23_Witness ==
    /\ ParsedSpine
    /\ \E i \in 1..Len(Itemrefs) : ~has_attr(Itemrefs[i], "linear") /\ opened.spine[i].linear
    /\ \E i \in 1..Len(Itemrefs) :
          /\ has_attr(Itemrefs[i], "linear") /\ Itemrefs[i].attrs.linear = "yes"
          /\ opened.spine[i].linear
    /\ \E i \in 1..Len(Itemrefs) :
          /\ has_attr(Itemrefs[i], "linear") /\ Itemrefs[i].attrs.linear = "no"
          /\ ~opened.spine[i].linear
    /\ \E i \in 1..Len(Itemrefs) :
          /\ has_attr(Itemrefs[i], "linear") /\ Itemrefs[i].attrs.linear = "true"
          /\ ~opened.spine[i].linear

----------------------------------------------------------------------------
(* Navigation never indexes the spine out of range *)

\* C25: no navigation call crashes, whatever the length of the spine, and
\* on the empty spine every call returns empty.
C25_AsStated ==
    (component = "spine" /\ spine_call # None) =>
        /\ spine_call.ret # "panic"
        /\ spine = <<>> => spine_call.ret = "none"

----------------------------------------------------------------------------
(* The cursor after a call that returns empty *)

ReturnedEmpty ==
    /\ component = "spine" /\ spine_call # None
    /\ spine_call.op \in {"navigate", "next", "prev"}
    /\ spine_call.ret = "none"

\* the entries the last call was to move the cursor to: the index handed to
\* navigate when it is in range, and for next (prev) from a linear entry
\* the nearest linear entry after (before) the cursor
Targets ==
    LET c == spine_call.from
    IN  CASE spine_call.op = "navigate" ->
                {j \in 0..(Len(spine) - 1) : j = spine_call.arg}
          [] spine_call.op = "next" ->
                {j \in 0..(Len(spine) - 1) : Linear(c) /\ NearestAfter(c, j)}
          [] spine_call.op = "prev" ->
                {j \in 0..(Len(spine) - 1) :
                    c < Len(spine) /\ Linear(c) /\ NearestBefore(c, j)}
          [] OTHER -> {}

\* C26 as stated: whenever navigate, next or prev returns empty, the cursor
\* has the value it had before the call.
C26_AsStated == ReturnedEmpty => current_spine_index = spine_call.from

\* C26: when navigate, next or prev returns empty without having found a
\* target entry, the cursor has the value it had before the call; when the
\* target entry is found and its resource cannot be fetched, the call
\* returns empty and the cursor rests on the target entry.
C26_CursorAfterEmpty ==
    ReturnedEmpty =>
        IF Targets = {} THEN current_spine_index = spine_call.from
        ELSE /\ current_spine_index \in Targets
             /\ fetch(spine, current_spine_index) = "none"

\* prev has returned empty and has moved the cursor to an entry whose
\* resource cannot be fetched
C26_Witness ==
    /\ ReturnedEmpty /\ spine_call.op = "prev"
    /\ current_spine_index < spine_call.from
    /\ fetch(spine, current_spine_index) = "none"

----------------------------------------------------------------------------
(* The builder's target paths and the staging workspace *)

\* the target path the builder's normalizer returned, walked from the
\* workspace directory
BuilderTarget == Components(BelowRoot(TempDir, builder_result.path))

\* C24: every path the builder's normalizer accepts lies inside the builder's
\* staging workspace directory, for "../"-prefixed, "/"-prefixed and plain
\* manifest paths alike
C24_AsStated ==
    (component = "path" /\ builder_result # None /\ builder_result.kind = "ok")
        => /\ CanStripPrefix(builder_result.path, TempDir)
           /\ StaysInside(BuilderTarget, 0)

----------------------------------------------------------------------------
(* Manifest entries and staged resource files *)

\* the target path of the entry id, under the rootfile the builder has now
TargetOf(id) == normalize(Builder, b_manifest[id])

\* the files of the workspace that EpubBuilder::new did not put there
StagedFiles == workspace.files \ NewWorkspace.files

\* C27: after any sequence of rootfile and manifest operations the manifest
\* entries and the staged resource files correspond one to one: every entry
\* has its file at its normalized target path, and every staged file is the
\* target of exactly one entry
C27_AsStated ==
    (component = "lifecycle" /\ b_alive) =>
        /\ \A id \in DOMAIN b_manifest :
              /\ TargetOf(id).kind = "ok"
              /\ TargetOf(id).path \in workspace.files
        /\ \A file \in StagedFiles :
              \E id \in DOMAIN b_manifest :
                 /\ TargetOf(id) = Ok(file)
                 /\ \A other \in DOMAIN b_manifest \ {id} : TargetOf(other) # Ok(file)

----------------------------------------------------------------------------
(* The output archive is written last *)

\* a check of make fails on the builder as it is before the call: no
\* rootfile, an empty catalog, incomplete metadata, or not exactly one
\* navigation entry once make has registered its own
FailsACheck ==
    \/ b_rootfiles = <<>>
    \/ b_catalog = <<>>
    \/ ~validate_metadata(b_metadata)
    \/ ~validate_manifest_nav(WithNav(b_manifest))

----------------------------------------------------------------------------
(* Reading, rebuilding and writing again *)

\* make has returned for the builder made from the opened document
Remade == component = "open" /\ rebuilt # None /\ make_result # None

Carried ==
    {id \in DOMAIN opened.manifest :
        \A i \in 1..Len(opened.manifest[id].properties) :
            ~str_contains(Chars(opened.manifest[id].properties[i]), Chars("nav"))}

\* every carried entry has its resource in the archive
Copyable == \A id \in Carried : opened.manifest[id].path \in publication.files

\* what make asks of the document: a title, a language and an identifier
\* whose id is "pub-id", and a table of contents that is not empty
Finalizable ==
    /\ \E i \in 1..Len(opened.metadata) : opened.metadata[i].property = "title"
    /\ \E i \in 1..Len(opened.metadata) : opened.metadata[i].property = "language"
    /\ \E i \in 1..Len(opened.metadata) :
          /\ opened.metadata[i].property = "identifier"
          /\ opened.metadata[i].id = "pub-id"
    /\ opened.catalog # <<>>

----------------------------------------------------------------------------
(* The Adobe transform returns *)

\* C30: the Adobe font-obfuscation transform terminates for every key and
\* every buffer, the empty key included: filling the 16-byte key by cycling
\* the key bytes always finishes
C30_AsStated ==
    (component = "font" /\ font_method = "adobe" /\ font_once # None)
        => font_once.kind = "returned"

====
